---- MODULE Spec2Model ----
(***************************************************************************)
(* A model of the json_value tree, the json_view navigation layer, the     *)
(* path resolver and the conversion protocol of                            *)
(* libs/yocto/yocto_commonio.h.                                            *)
(*                                                                         *)
(* Representation.                                                         *)
(*   - A json_value is a record [type, rep, v]: `type` is the _type        *)
(*     discriminant, `rep` names the storage of the anonymous union that   *)
(*     was written last ("inline" for the 64 bits shared by _integer,      *)
(*     _unsigned, _real and _boolean; "string", "array", "object" and      *)
(*     "binary" for the four owning pointers) and `v` is what that storage *)
(*     holds: a number for inline storage, the pointee for a pointer.      *)
(*   - A string is a sequence of characters, a json_binary a sequence of   *)
(*     bytes, a json_array a sequence of json_values and a json_object a   *)
(*     sequence of pairs [first, second].                                  *)
(*   - A double is held as twice its value, so that halves are exact and   *)
(*     the conversion (double)n of an integer is visible as Dbl(n) = 2n.   *)
(*   - A pointer to a json_value is [null, path]: path is the sequence of  *)
(*     0-based element positions leading from the root value to the node.  *)
(***************************************************************************)
EXTENDS Integers, Sequences, FiniteSets, TLC

VARIABLES doc, last

vars == <<doc, last>>

(***************************************************************************)
(* Bounds of the model.                                                    *)
(***************************************************************************)
\* most json_values below the root of a tree
MaxNodes == 2
\* modelled width of the 64 bit integers (int64_t, uint64_t)
Bits64 == 5
\* modelled width of the 32 bit integers (int32_t, uint32_t)
Bits32 == 3

(***************************************************************************)
(* json_type and the union                                                 *)
(***************************************************************************)
json_type ==
  {"null", "integer", "unsigned", "real", "boolean", "string", "array", "object", "binary"}

InlineTypes == {"null", "integer", "unsigned", "real", "boolean"}

Node(t, r, x) == [type |-> t, rep |-> r, v |-> x]

\* the pair<string, json_value> of a json_object
Pair(k, n) == [first |-> k, second |-> n]

RECURSIVE Pow2(_)
Pow2(n) == IF n = 0 THEN 1 ELSE 2 * Pow2(n - 1)

\* (uint64_t)x, (int64_t)x, (uint32_t)x, (int32_t)x
CastU(x, bits) == x % Pow2(bits)
CastS(x, bits) ==
  LET u == x % Pow2(bits) IN IF u >= Pow2(bits - 1) THEN u - Pow2(bits) ELSE u
U64(x) == CastU(x, Bits64)
S64(x) == CastS(x, Bits64)
U32(x) == CastU(x, Bits32)
S32(x) == CastS(x, Bits32)

\* (double)x of an integer x
Dbl(x) == 2 * x

\* bool stored in and read from the _boolean byte
BoolBits(b) == IF b THEN 1 ELSE 0
BitsBool(x) == x # 0

(***************************************************************************)
(* json_value: constructors, assignment, swap, destructor, set_type        *)
(***************************************************************************)
\* the union member a discriminant selects
RepOf(t) == IF t \in InlineTypes THEN "inline" ELSE t

\* json_value::json_value()
json_value_default == Node("null", "inline", 0)

\* json_value::json_value(const json_value& other); vector's copy constructor
\* copy-constructs every element
RECURSIVE json_value_copy(_)
json_value_copy(other) ==
  CASE other.type = "null" -> Node("null", "inline", other.v)
    [] other.type = "integer" -> Node("integer", "inline", other.v)
    [] other.type = "unsigned" -> Node("unsigned", "inline", other.v)
    [] other.type = "real" -> Node("real", "inline", other.v)
    [] other.type = "boolean" -> Node("boolean", "inline", other.v)
    [] other.type = "string" -> Node("string", "string", other.v)
    [] other.type = "array" ->
         Node("array", "array", [i \in DOMAIN other.v |-> json_value_copy(other.v[i])])
    [] other.type = "object" ->
         Node("object", "object",
              [i \in DOMAIN other.v |->
                 Pair(other.v[i].first, json_value_copy(other.v[i].second))])
    [] other.type = "binary" -> Node("binary", "binary", other.v)

\* json_value::json_value(int64_t), (int32_t), (uint64_t), (uint32_t), (double),
\* (bool), (const string&), (const json_array&), (const json_object&),
\* (const json_binary&)
json_value_integer(value) == Node("integer", "inline", value)
json_value_unsigned(value) == Node("unsigned", "inline", value)
json_value_real(value) == Node("real", "inline", value)
json_value_boolean(value) == Node("boolean", "inline", BoolBits(value))
json_value_string(value) == Node("string", "string", value)
json_value_array(value) ==
  Node("array", "array", [i \in DOMAIN value |-> json_value_copy(value[i])])
json_value_object(value) ==
  Node("object", "object",
       [i \in DOMAIN value |-> Pair(value[i].first, json_value_copy(value[i].second))])
json_value_binary(value) == Node("binary", "binary", value)

\* swap exchanging the discriminants and leaving the union where it was
swap_type_only(self, other) ==
  [self |-> Node(other.type, self.rep, self.v),
   other |-> Node(self.type, other.rep, other.v)]

\* json_value::swap: exchanges _type and the 64 bits of the union;
\* the result is the pair [self, other] after the exchange
swap(self, other) ==
  [self |-> Node(other.type, other.rep, other.v),
   other |-> Node(self.type, self.rep, self.v)]

\* json_value::~json_value: releases the payload, leaves null and 0
json_value_destroy(self) == Node("null", "inline", 0)

\* json_value::json_value(json_value&& other): [self, other] after the move
json_value_move(other) == swap(json_value_default, other)

\* json_value::operator=(const json_value& value): copy, swap, destroy the copy
assign_copy(self, value) == swap(self, json_value_copy(value)).self

\* json_value::operator=(json_value&& value): [self, other] after the swap
assign_move(self, value) == swap(self, value)

\* json_value::operator=(T value) for the typed overloads: construct, swap
assign_value(self, js) == swap(self, js).self

\* the payload set_type installs for a kind
DefaultPayload(t) == IF t \in InlineTypes THEN 0 ELSE <<>>

\* json_value::set_type
json_value_set_type(self, t) == Node(t, RepOf(t), DefaultPayload(t))

\* json_value::type, and json_value::is_null .. is_binary as is(k)
json_value_type(self) == self.type
json_value_is(self, k) == self.type = k

(***************************************************************************)
(* Trees and pointers into them                                            *)
(***************************************************************************)
IsContainer(n) == n.rep \in {"array", "object"}

\* the json_value stored at 0-based position i of an array or object payload
Child(n, i) == IF n.rep = "object" THEN n.v[i + 1].second ELSE n.v[i + 1]

\* the node with 0-based position i of its payload replaced by c
WithChild(n, i, c) ==
  IF n.rep = "object"
    THEN [n EXCEPT !.v[i + 1] = Pair(n.v[i + 1].first, c)]
    ELSE [n EXCEPT !.v[i + 1] = c]

RECURSIVE NodeAt(_, _)
NodeAt(tree, path) ==
  IF path = <<>> THEN tree ELSE NodeAt(Child(tree, Head(path)), Tail(path))

RECURSIVE ReplaceAt(_, _, _)
ReplaceAt(tree, path, n) ==
  IF path = <<>> THEN n
  ELSE WithChild(tree, Head(path), ReplaceAt(Child(tree, Head(path)), Tail(path), n))

\* the paths of all json_values of a tree, the root included
RECURSIVE PathsOf(_)
PathsOf(tree) ==
  {<<>>} \cup
  (IF IsContainer(tree)
     THEN UNION {{<<i - 1>> \o p : p \in PathsOf(Child(tree, i - 1))} : i \in DOMAIN tree.v}
     ELSE {})

\* the number of json_values below the root
NodeCount(tree) == Cardinality(PathsOf(tree)) - 1

\* json_value* : the null pointer, or the address of the node at a path
NullPtr == [null |-> TRUE, path |-> <<>>]
PtrTo(path) == [null |-> FALSE, path |-> path]

\* json_view / json_cview { value, root }
View(value, root) == [value |-> value, root |-> root]

\* get_root
get_root == View(PtrTo(<<>>), PtrTo(<<>>))

\* *js.value
Deref(tree, js) == NodeAt(tree, js.value.path)

(***************************************************************************)
(* Views: type queries                                                     *)
(***************************************************************************)
get_type(tree, js) == IF ~js.value.null THEN Deref(tree, js).type ELSE "null"
is_valid(js) == ~js.value.null
\* is_null answering from get_type alone
is_null_of_type_only(tree, js) == get_type(tree, js) = "null"

is_null(tree, js) == is_valid(js) /\ get_type(tree, js) = "null"
is_integer(tree, js) == get_type(tree, js) = "integer"
is_unsigned(tree, js) == get_type(tree, js) = "unsigned"
is_real(tree, js) == get_type(tree, js) = "real"
is_integral(tree, js) ==
  get_type(tree, js) = "integer" \/ get_type(tree, js) = "unsigned"
is_number(tree, js) ==
  get_type(tree, js) = "integer" \/ get_type(tree, js) = "unsigned" \/
  get_type(tree, js) = "real"
is_boolean(tree, js) == get_type(tree, js) = "boolean"
is_string(tree, js) == get_type(tree, js) = "string"
is_array(tree, js) == get_type(tree, js) = "array"
is_object(tree, js) == get_type(tree, js) = "object"
is_binary(tree, js) == get_type(tree, js) = "binary"

\* is_<k>(js) for the kind k, and is_integral and is_number
is_kind(tree, js, k) ==
  CASE k = "null" -> is_null(tree, js)
    [] k = "integer" -> is_integer(tree, js)
    [] k = "unsigned" -> is_unsigned(tree, js)
    [] k = "real" -> is_real(tree, js)
    [] k = "boolean" -> is_boolean(tree, js)
    [] k = "string" -> is_string(tree, js)
    [] k = "array" -> is_array(tree, js)
    [] k = "object" -> is_object(tree, js)
    [] k = "binary" -> is_binary(tree, js)
    [] k = "integral" -> is_integral(tree, js)
    [] k = "number" -> is_number(tree, js)

(***************************************************************************)
(* Views: setters. Each yields [ret, tree]: the result and the tree after. *)
(***************************************************************************)
\* *js.value = n
Store(tree, js, n) == ReplaceAt(tree, js.value.path, n)

\* set_type returning early when the node already has the kind asked for
set_type_same_kind_kept(tree, js, t) ==
  IF ~js.value.null
    THEN [ret |-> TRUE,
          tree |-> IF Deref(tree, js).type = t THEN tree
                   ELSE Store(tree, js, Node(t, RepOf(t), DefaultPayload(t)))]
    ELSE [ret |-> FALSE, tree |-> tree]

set_type(tree, js, t) ==
  IF ~js.value.null
    THEN [ret |-> TRUE, tree |-> Store(tree, js, Node(t, RepOf(t), DefaultPayload(t)))]
    ELSE [ret |-> FALSE, tree |-> tree]

\* the setter returning after set_type, the member left at its default
StoreMember_value_dropped(r, js, value) ==
  IF r.ret THEN [ret |-> TRUE, tree |-> r.tree] ELSE [ret |-> FALSE, tree |-> r.tree]

\* js.value->_<member> = value, after a set_type that returned r
StoreMember(r, js, value) ==
  IF r.ret
    THEN [ret |-> TRUE, tree |-> Store(r.tree, js, [Deref(r.tree, js) EXCEPT !.v = value])]
    ELSE [ret |-> FALSE, tree |-> r.tree]

set_null(tree, js) ==
  LET r == set_type(tree, js, "null") IN
  IF ~r.ret THEN [ret |-> FALSE, tree |-> r.tree] ELSE [ret |-> TRUE, tree |-> r.tree]
set_integer(tree, js, value) == StoreMember(set_type(tree, js, "integer"), js, value)
set_unsigned(tree, js, value) == StoreMember(set_type(tree, js, "unsigned"), js, value)
set_real(tree, js, value) == StoreMember(set_type(tree, js, "real"), js, value)
set_boolean(tree, js, value) ==
  StoreMember(set_type(tree, js, "boolean"), js, BoolBits(value))
set_string(tree, js, value) == StoreMember(set_type(tree, js, "string"), js, value)
set_binary(tree, js, value) == StoreMember(set_type(tree, js, "binary"), js, value)

(***************************************************************************)
(* Views: getters. Each yields [ret, value]: the result and the            *)
(* out-parameter after the call.                                           *)
(***************************************************************************)
get_integer(tree, js, value) ==
  IF is_integer(tree, js) THEN [ret |-> TRUE, value |-> Deref(tree, js).v]
  ELSE [ret |-> FALSE, value |-> value]
get_unsigned(tree, js, value) ==
  IF is_unsigned(tree, js) THEN [ret |-> TRUE, value |-> Deref(tree, js).v]
  ELSE [ret |-> FALSE, value |-> value]
get_real(tree, js, value) ==
  IF is_real(tree, js) THEN [ret |-> TRUE, value |-> Deref(tree, js).v]
  ELSE [ret |-> FALSE, value |-> value]
get_boolean(tree, js, value) ==
  IF is_boolean(tree, js) THEN [ret |-> TRUE, value |-> BitsBool(Deref(tree, js).v)]
  ELSE [ret |-> FALSE, value |-> value]
get_string(tree, js, value) ==
  IF is_string(tree, js) THEN [ret |-> TRUE, value |-> Deref(tree, js).v]
  ELSE [ret |-> FALSE, value |-> value]
get_binary(tree, js, value) ==
  IF is_binary(tree, js) THEN [ret |-> TRUE, value |-> Deref(tree, js).v]
  ELSE [ret |-> FALSE, value |-> value]

\* get_integral(json_cview, int64_t&)
get_integral_i64(tree, js, value) ==
  IF is_integer(tree, js) THEN [ret |-> TRUE, value |-> S64(Deref(tree, js).v)]
  ELSE IF is_unsigned(tree, js) THEN [ret |-> TRUE, value |-> S64(Deref(tree, js).v)]
  ELSE [ret |-> FALSE, value |-> value]
\* get_integral(json_cview, uint64_t&) with the casts of the int64_t overload
get_integral_u64_signed_cast(tree, js, value) ==
  IF is_integer(tree, js) THEN [ret |-> TRUE, value |-> S64(Deref(tree, js).v)]
  ELSE IF is_unsigned(tree, js) THEN [ret |-> TRUE, value |-> S64(Deref(tree, js).v)]
  ELSE [ret |-> FALSE, value |-> value]

\* get_integral(json_cview, uint64_t&) refusing a negative integer
get_integral_u64_range_checked(tree, js, value) ==
  IF is_integer(tree, js) /\ Deref(tree, js).v >= 0
    THEN [ret |-> TRUE, value |-> U64(Deref(tree, js).v)]
  ELSE IF is_unsigned(tree, js) THEN [ret |-> TRUE, value |-> U64(Deref(tree, js).v)]
  ELSE [ret |-> FALSE, value |-> value]

\* get_integral(json_cview, uint64_t&)
get_integral_u64(tree, js, value) ==
  IF is_integer(tree, js) THEN [ret |-> TRUE, value |-> U64(Deref(tree, js).v)]
  ELSE IF is_unsigned(tree, js) THEN [ret |-> TRUE, value |-> U64(Deref(tree, js).v)]
  ELSE [ret |-> FALSE, value |-> value]
\* get_number copying the integer's bits without the cast to double
get_number_no_cast(tree, js, value) ==
  IF is_real(tree, js) THEN [ret |-> TRUE, value |-> Deref(tree, js).v]
  ELSE IF is_integer(tree, js) THEN [ret |-> TRUE, value |-> Deref(tree, js).v]
  ELSE IF is_unsigned(tree, js) THEN [ret |-> TRUE, value |-> Deref(tree, js).v]
  ELSE [ret |-> FALSE, value |-> value]

get_number(tree, js, value) ==
  IF is_real(tree, js) THEN [ret |-> TRUE, value |-> Deref(tree, js).v]
  ELSE IF is_integer(tree, js) THEN [ret |-> TRUE, value |-> Dbl(Deref(tree, js).v)]
  ELSE IF is_unsigned(tree, js) THEN [ret |-> TRUE, value |-> Dbl(Deref(tree, js).v)]
  ELSE [ret |-> FALSE, value |-> value]

(***************************************************************************)
(* Views: arrays and objects                                               *)
(***************************************************************************)
\* vector::resize(size): truncates, or appends value-initialised elements
VectorResize(vec, size, fill) ==
  [i \in 1..size |-> IF i <= Len(vec) THEN vec[i] ELSE fill]

array_size(tree, js) == IF is_array(tree, js) THEN Len(Deref(tree, js).v) ELSE 0

\* resize_array: [ret, tree]
resize_array(tree, js, size) ==
  IF is_array(tree, js)
    THEN [ret |-> TRUE,
          tree |-> Store(tree, js,
                     [Deref(tree, js) EXCEPT
                        !.v = VectorResize(@, size, json_value_default)])]
    ELSE [ret |-> FALSE, tree |-> tree]

\* set_array(json_view): [ret, tree]
set_array(tree, js) == set_type(tree, js, "array")

\* set_array(json_view, size_t): [ret, tree]
set_array_size(tree, js, size) ==
  LET r == set_type(tree, js, "array") IN
  IF r.ret THEN resize_array(r.tree, js, size) ELSE [ret |-> FALSE, tree |-> r.tree]

\* set_object(json_view): [ret, tree]
set_object(tree, js) == set_type(tree, js, "object")

object_size(tree, js) == IF is_object(tree, js) THEN Len(Deref(tree, js).v) ELSE 0

\* &element at 0-based position idx of the payload of *js.value
ElementPtr(js, idx) == PtrTo(js.value.path \o <<idx>>)

\* get_element(json_view, size_t) with the bound test off by one
get_element_idx_off_by_one(tree, js, idx) ==
  IF is_array(tree, js) /\ idx <= array_size(tree, js)
    THEN View(ElementPtr(js, idx), js.root)
    ELSE View(NullPtr, js.root)

\* get_element(json_view, size_t)
get_element_idx(tree, js, idx) ==
  IF is_array(tree, js) /\ idx < array_size(tree, js)
    THEN View(ElementPtr(js, idx), js.root)
    ELSE View(NullPtr, js.root)

\* get_element(json_view, size_t) calling at(idx) before it tests the bounds
get_element_idx_at_unguarded(tree, js, idx) ==
  is_array(tree, js) /\ ~(idx < Len(Deref(tree, js).v))

\* whether get_element(json_view, size_t) ends in the std::out_of_range that
\* _array->at(idx) throws for an idx that is not below the vector's size
get_element_idx_throws(tree, js, idx) ==
  is_array(tree, js) /\ idx < array_size(tree, js) /\ ~(idx < Len(Deref(tree, js).v))

\* for (auto& [key_, value] : object) if (key_ == key) return &value;
\* the 1-based position of the pair returned, 0 when the loop ends
RECURSIVE FindFrom(_, _, _)
FindFrom(pairs, key, i) ==
  IF i > Len(pairs) THEN 0
  ELSE IF pairs[i].first = key THEN i
  ELSE FindFrom(pairs, key, i + 1)

\* the loop returning the last pair of the key instead of the first
RECURSIVE FindLastFrom(_, _, _)
FindLastFrom(pairs, key, i) ==
  IF i < 1 THEN 0
  ELSE IF pairs[i].first = key THEN i
  ELSE FindLastFrom(pairs, key, i - 1)

FindKeyLast(pairs, key) == FindLastFrom(pairs, key, Len(pairs))

FindKey(pairs, key) == FindFrom(pairs, key, 1)

\* get_element(json_view, string_view)
get_element_key(tree, js, key) ==
  IF is_object(tree, js)
    THEN LET i == FindKey(Deref(tree, js).v, key) IN
         IF i # 0 THEN View(ElementPtr(js, i - 1), js.root) ELSE View(NullPtr, js.root)
    ELSE View(NullPtr, js.root)

has_element(tree, js, key) == is_valid(get_element_key(tree, js, key))

\* append_element putting the new element in front of the others
append_element_in_front(tree, js) ==
  IF is_array(tree, js)
    THEN LET n == Deref(tree, js) IN
         [view |-> View(ElementPtr(js, Len(n.v)), js.root),
          tree |-> Store(tree, js, [n EXCEPT !.v = <<json_value_default>> \o @])]
    ELSE [view |-> View(NullPtr, js.root), tree |-> tree]

\* append_element: [view, tree]
append_element(tree, js) ==
  IF is_array(tree, js)
    THEN LET n == Deref(tree, js) IN
         [view |-> View(ElementPtr(js, Len(n.v)), js.root),
          tree |-> Store(tree, js, [n EXCEPT !.v = Append(@, json_value_default)])]
    ELSE [view |-> View(NullPtr, js.root), tree |-> tree]

\* insert_element appending a pair without looking the key up first
insert_element_always_appends(tree, js, key) ==
  IF is_object(tree, js)
    THEN LET n == Deref(tree, js) IN
         [view |-> View(ElementPtr(js, Len(n.v)), js.root),
          tree |-> Store(tree, js,
                     [n EXCEPT !.v = Append(@, Pair(key, json_value_default))])]
    ELSE [view |-> View(NullPtr, js.root), tree |-> tree]

\* insert_element: [view, tree]
insert_element(tree, js, key) ==
  IF is_object(tree, js)
    THEN LET n == Deref(tree, js)
             i == FindKey(n.v, key) IN
         IF i # 0
           THEN [view |-> View(ElementPtr(js, i - 1), js.root), tree |-> tree]
           ELSE [view |-> View(ElementPtr(js, Len(n.v)), js.root),
                 tree |-> Store(tree, js,
                            [n EXCEPT !.v = Append(@, Pair(key, json_value_default))])]
    ELSE [view |-> View(NullPtr, js.root), tree |-> tree]

(***************************************************************************)
(* Path resolver                                                           *)
(***************************************************************************)
Digits == <<"0", "1", "2", "3", "4", "5", "6", "7", "8", "9">>

\* std::to_string of a non-negative integer
RECURSIVE to_string(_)
to_string(n) ==
  IF n < 10 THEN <<Digits[n + 1]>> ELSE to_string(n \div 10) \o <<Digits[(n % 10) + 1]>>

\* if (path.back() == '/') path.pop_back();
PopSlash(path) ==
  IF path[Len(path)] = "/" THEN SubSeq(path, 1, Len(path) - 1) ELSE path

\* _compute_path(js, jsv, path): [ret, path], path being the string after
\* the call. ScanArray and ScanObject are its two loops from element i on.
RECURSIVE compute_path_rec(_, _, _, _)
RECURSIVE ScanArray(_, _, _, _, _)
RECURSIVE ScanObject(_, _, _, _, _)
ScanArray(tree, js, jsv, path, i) ==
  IF i >= Len(Deref(tree, js).v) THEN [ret |-> FALSE, path |-> path]
  ELSE LET idx == 0
           r == compute_path_rec(tree, View(ElementPtr(js, i), js.root), jsv, path) IN
       IF ~r.ret THEN ScanArray(tree, js, jsv, r.path, i + 1)
       ELSE [ret |-> TRUE, path |-> <<"/">> \o to_string(idx) \o PopSlash(r.path)]

ScanObject(tree, js, jsv, path, i) ==
  IF i >= Len(Deref(tree, js).v) THEN [ret |-> FALSE, path |-> path]
  ELSE LET key == Deref(tree, js).v[i + 1].first
           r == compute_path_rec(tree, View(ElementPtr(js, i), js.root), jsv, path) IN
       IF ~r.ret THEN ScanObject(tree, js, jsv, r.path, i + 1)
       ELSE [ret |-> TRUE, path |-> <<"/">> \o key \o PopSlash(r.path)]

compute_path_rec(tree, js, jsv, path) ==
  IF js.value.null \/ js.root.null \/ jsv.value.null \/ jsv.root.null
    THEN [ret |-> FALSE, path |-> path]
  ELSE IF js.value = jsv.value THEN [ret |-> TRUE, path |-> <<"/">>]
  ELSE IF is_array(tree, js) THEN ScanArray(tree, js, jsv, path, 0)
  ELSE IF is_object(tree, js) THEN ScanObject(tree, js, jsv, path, 0)
  ELSE [ret |-> FALSE, path |-> path]

compute_path(tree, js) ==
  LET r == compute_path_rec(tree, View(js.root, js.root), js, <<>>) IN
  IF r.ret THEN r.path ELSE <<>>

\* the texts of the error messages
Messages ==
  [ in_json |->
      <<" ", "i", "n", " ", "j", "s", "o", "n">>,
    at |->
      <<" ", "a", "t", " ">>,
    integer_expected |->
      <<"i", "n", "t", "e", "g", "e", "r", " ", "e", "x", "p", "e", "c", "t", "e", "d">>,
    number_expected |->
      <<"n", "u", "m", "b", "e", "r", " ", "e", "x", "p", "e", "c", "t", "e", "d">>,
    boolean_expected |->
      <<"b", "o", "o", "l", "e", "a", "n", " ", "e", "x", "p", "e", "c", "t", "e", "d">>,
    string_expected |->
      <<"s", "t", "r", "i", "n", "g", " ", "e", "x", "p", "e", "c", "t", "e", "d">>,
    array_expected |->
      <<"a", "r", "r", "a", "y", " ", "e", "x", "p", "e", "c", "t", "e", "d">>,
    object_expected |->
      <<"o", "b", "j", "e", "c", "t", " ", "e", "x", "p", "e", "c", "t", "e", "d">>,
    unsigned_expected |->
      <<"u", "n", "s", "i", "g", "n", "e", "d", " ", "e", "x", "p", "e", "c", "t", "e", "d">>,
    real_expected |->
      <<"r", "e", "a", "l", " ", "e", "x", "p", "e", "c", "t", "e", "d">>,
    array_size_mismatched |->
      <<"a", "r", "r", "a", "y", " ", "s", "i", "z", "e", " ", "m", "i", "s", "m", "a", "t", "c", "h", "e", "d">>,
    missing_key |->
      <<"m", "i", "s", "s", "i", "n", "g", " ", "k", "e", "y", " ">>,
    index_out_of_range |->
      <<"i", "n", "d", "e", "x", " ", "o", "u", "t", " ", "o", "f", " ", "r", "a", "n", "g", "e", " ">> ]

format_error(tree, js, message) ==
  LET path == compute_path(tree, js) IN
  IF path = <<>> THEN message \o Messages.in_json ELSE message \o Messages.at \o path

(***************************************************************************)
(* Conversion protocol. A native type T is a descriptor [k], [k, elem] or  *)
(* [k, elem, n]; a native value is a number, a boolean, a string or a      *)
(* sequence of native values. get_value yields [ret, value, error] and     *)
(* set_value yields [ret, tree, error]: the out-parameters after the call. *)
(***************************************************************************)
Native ==
  [ int64 |-> [k |-> "int64"],
    int32 |-> [k |-> "int32"],
    uint64 |-> [k |-> "uint64"],
    uint32 |-> [k |-> "uint32"],
    double |-> [k |-> "double"],
    bool |-> [k |-> "bool"],
    string |-> [k |-> "string"] ]
T_vector(T) == [k |-> "vector", elem |-> T]
T_array(T, N) == [k |-> "array", elem |-> T, n |-> N]

\* T{}: the value-initialised native value
RECURSIVE DefaultNative(_)
DefaultNative(T) ==
  CASE T.k \in {"int64", "int32", "uint64", "uint32", "double"} -> 0
    [] T.k = "bool" -> FALSE
    [] T.k = "string" -> <<>>
    [] T.k = "vector" -> <<>>
    [] T.k = "array" -> [i \in 1..T.n |-> DefaultNative(T.elem)]


\* a getter's result with the bare message as the error
Converted_unqualified(tree, js, r, error, message) ==
  IF r.ret THEN [ret |-> TRUE, value |-> r.value, error |-> error]
  ELSE [ret |-> FALSE, value |-> r.value, error |-> message]

\* a getter's [ret, value] as get_value's result: error is set on failure
Converted(tree, js, r, error, message) ==
  IF r.ret THEN [ret |-> TRUE, value |-> r.value, error |-> error]
  ELSE [ret |-> FALSE, value |-> r.value, error |-> format_error(tree, js, message)]

\* size(json_cview)
size(tree, js) ==
  IF is_array(tree, js) \/ is_object(tree, js) \/ is_string(tree, js) \/
     is_binary(tree, js)
    THEN Len(Deref(tree, js).v)
    ELSE 1

\* empty(json_cview)
empty(tree, js) ==
  IF is_array(tree, js) \/ is_object(tree, js) \/ is_string(tree, js) \/
     is_binary(tree, js)
    THEN Deref(tree, js).v = <<>>
    ELSE TRUE

array_empty(tree, js) == IF is_array(tree, js) THEN Deref(tree, js).v = <<>> ELSE FALSE

object_empty(tree, js) == IF is_object(tree, js) THEN Deref(tree, js).v = <<>> ELSE TRUE

RECURSIVE get_value(_, _, _, _, _)
RECURSIVE GetVectorLoop(_, _, _, _, _)
RECURSIVE GetArrayLoop(_, _, _, _, _)

\* template get_value(json_cview, T&): a local error string, dropped
get_value2(tree, js, T, value) ==
  LET r == get_value(tree, js, T, value, <<>>) IN [ret |-> r.ret, value |-> r.value]

\* for (auto ejs : iterate_array(js))
\*   if (!get_value(ejs, value.emplace_back())) return false;
GetVectorLoop(tree, js, T, value, i) ==
  IF i >= Len(Deref(tree, js).v) THEN [ret |-> TRUE, value |-> value]
  ELSE LET r == get_value2(tree, View(ElementPtr(js, i), js.root), T.elem,
                           DefaultNative(T.elem)) IN
       IF ~r.ret THEN [ret |-> FALSE, value |-> Append(value, r.value)]
       ELSE GetVectorLoop(tree, js, T, Append(value, r.value), i + 1)

\* for (auto idx = (size_t)0; idx < size(js); idx++)
\*   if (!get_value(get_element(js, idx), value.at(idx))) return false;
GetArrayLoop(tree, js, T, value, idx) ==
  IF ~(idx < size(tree, js)) THEN [ret |-> TRUE, value |-> value]
  ELSE LET r == get_value2(tree, get_element_idx(tree, js, idx), T.elem,
                           value[idx + 1]) IN
       IF ~r.ret THEN [ret |-> FALSE, value |-> [value EXCEPT ![idx + 1] = r.value]]
       ELSE GetArrayLoop(tree, js, T, [value EXCEPT ![idx + 1] = r.value], idx + 1)

\* whether get_value ends in an exception: of value.at(idx) in the loop over
\* array<T, N>, of get_element, or of the get_value of an element; a loop
\* reaches an element only when every element before it was read
RECURSIVE get_value_throws(_, _, _, _)
get_value_throws(tree, js, T, value) ==
  CASE T.k = "vector" ->
         /\ is_array(tree, js)
         /\ \E i \in 0..(Len(Deref(tree, js).v) - 1) :
              /\ \A j \in 0..(i - 1) :
                   get_value2(tree, View(ElementPtr(js, j), js.root), T.elem,
                              DefaultNative(T.elem)).ret
              /\ get_value_throws(tree, View(ElementPtr(js, i), js.root), T.elem,
                                  DefaultNative(T.elem))
    [] T.k = "array" ->
         /\ is_array(tree, js)
         /\ array_size(tree, js) = T.n
         /\ \E idx \in 0..(size(tree, js) - 1) :
              /\ \A j \in 0..(idx - 1) :
                   get_value2(tree, get_element_idx(tree, js, j), T.elem,
                              value[j + 1]).ret
              /\ \/ get_element_idx_throws(tree, js, idx)
                 \/ ~(idx < Len(value))
                 \/ get_value_throws(tree, get_element_idx(tree, js, idx), T.elem,
                                     value[idx + 1])
    [] OTHER -> FALSE

\* get_value accepting into array<T, N> every array of at most N elements
get_value_size_at_most(tree, js, T, value, error) ==
  CASE T.k = "int64" ->
         Converted(tree, js, get_integral_i64(tree, js, value), error,
                   Messages.integer_expected)
    [] T.k = "int32" ->
         LET r == get_value(tree, js, Native.int64, 0, error) IN
         IF ~r.ret THEN [ret |-> FALSE, value |-> value, error |-> r.error]
         ELSE [ret |-> TRUE, value |-> S32(r.value), error |-> r.error]
    [] T.k = "uint64" ->
         Converted(tree, js, get_integral_u64(tree, js, value), error,
                   Messages.integer_expected)
    [] T.k = "uint32" ->
         LET r == get_value(tree, js, Native.uint64, 0, error) IN
         IF ~r.ret THEN [ret |-> FALSE, value |-> value, error |-> r.error]
         ELSE [ret |-> TRUE, value |-> U32(r.value), error |-> r.error]
    [] T.k = "double" ->
         Converted(tree, js, get_number(tree, js, value), error, Messages.number_expected)
    [] T.k = "bool" ->
         Converted(tree, js, get_boolean(tree, js, value), error, Messages.boolean_expected)
    [] T.k = "string" ->
         Converted(tree, js, get_string(tree, js, value), error, Messages.string_expected)
    [] T.k = "vector" ->
         IF is_array(tree, js)
           THEN LET r == GetVectorLoop(tree, js, T, <<>>, 0) IN
                [ret |-> r.ret, value |-> r.value, error |-> error]
           ELSE [ret |-> FALSE, value |-> value,
                 error |-> format_error(tree, js, Messages.array_expected)]
    [] T.k = "array" ->
         IF is_array(tree, js) /\ array_size(tree, js) <= T.n
           THEN LET r == GetArrayLoop(tree, js, T, value, 0) IN
                [ret |-> r.ret, value |-> r.value, error |-> error]
           ELSE [ret |-> FALSE, value |-> value,
                 error |-> format_error(tree, js,
                             IF ~is_array(tree, js) THEN Messages.array_expected
                             ELSE Messages.array_size_mismatched)]

get_value(tree, js, T, value, error) ==
  CASE T.k = "int64" ->
         Converted(tree, js, get_integral_i64(tree, js, value), error,
                   Messages.integer_expected)
    [] T.k = "int32" ->
         LET r == get_value(tree, js, Native.int64, 0, error) IN
         IF ~r.ret THEN [ret |-> FALSE, value |-> value, error |-> r.error]
         ELSE [ret |-> TRUE, value |-> S32(r.value), error |-> r.error]
    [] T.k = "uint64" ->
         Converted(tree, js, get_integral_u64(tree, js, value), error,
                   Messages.integer_expected)
    [] T.k = "uint32" ->
         LET r == get_value(tree, js, Native.uint64, 0, error) IN
         IF ~r.ret THEN [ret |-> FALSE, value |-> value, error |-> r.error]
         ELSE [ret |-> TRUE, value |-> U32(r.value), error |-> r.error]
    [] T.k = "double" ->
         Converted(tree, js, get_number(tree, js, value), error, Messages.number_expected)
    [] T.k = "bool" ->
         Converted(tree, js, get_boolean(tree, js, value), error, Messages.boolean_expected)
    [] T.k = "string" ->
         Converted(tree, js, get_string(tree, js, value), error, Messages.string_expected)
    [] T.k = "vector" ->
         IF is_array(tree, js)
           THEN LET r == GetVectorLoop(tree, js, T, <<>>, 0) IN
                [ret |-> r.ret, value |-> r.value, error |-> error]
           ELSE [ret |-> FALSE, value |-> value,
                 error |-> format_error(tree, js, Messages.array_expected)]
    [] T.k = "array" ->
         IF is_array(tree, js) /\ array_size(tree, js) = T.n
           THEN LET r == GetArrayLoop(tree, js, T, value, 0) IN
                [ret |-> r.ret, value |-> r.value, error |-> error]
           ELSE [ret |-> FALSE, value |-> value,
                 error |-> format_error(tree, js,
                             IF ~is_array(tree, js) THEN Messages.array_expected
                             ELSE Messages.array_size_mismatched)]

\* get_value_at(json_cview, string_view, T&, string&)
get_value_at_key(tree, js, key, T, value, error) ==
  LET element == get_element_key(tree, js, key) IN
  IF is_valid(element) THEN get_value(tree, element, T, value, error)
  ELSE [ret |-> FALSE, value |-> value,
        error |-> format_error(tree, js, Messages.missing_key \o key)]

\* get_value_at(json_cview, size_t, T&, string&)
get_value_at_idx(tree, js, idx, T, value, error) ==
  LET element == get_element_idx(tree, js, idx) IN
  IF is_valid(element) THEN get_value(tree, element, T, value, error)
  ELSE [ret |-> FALSE, value |-> value,
        error |-> format_error(tree, js, Messages.index_out_of_range \o to_string(idx))]

\* get_value_if treating an absent key as a missing key
get_value_if_absent_fails(tree, js, key, T, value, error) ==
  get_value_at_key(tree, js, key, T, value, error)

\* get_value_if(json_cview, string_view, T&, string&)
get_value_if(tree, js, key, T, value, error) ==
  LET ejs == get_element_key(tree, js, key) IN
  IF is_valid(ejs) THEN get_value(tree, ejs, T, value, error)
  ELSE IF is_object(tree, js) THEN [ret |-> TRUE, value |-> value, error |-> error]
  ELSE [ret |-> FALSE, value |-> value,
        error |-> format_error(tree, js, Messages.object_expected)]

\* a setter's [ret, tree] as set_value's result: error is set on failure
Stored(tree, js, r, error, message) ==
  IF r.ret THEN [ret |-> TRUE, tree |-> r.tree, error |-> error]
  ELSE [ret |-> FALSE, tree |-> r.tree, error |-> format_error(tree, js, message)]

RECURSIVE set_value(_, _, _, _, _)
RECURSIVE SetVectorLoop(_, _, _, _, _)
RECURSIVE SetArrayLoop(_, _, _, _, _, _)

\* template set_value(json_view, const T&): a local error string, dropped
set_value2(tree, js, T, value) ==
  LET r == set_value(tree, js, T, value, <<>>) IN [ret |-> r.ret, tree |-> r.tree]

\* the loop of set_value(vector<T>) returning after the first element
SetVectorLoop_first_only(tree, js, T, value, idx) ==
  IF idx >= Len(value) THEN [ret |-> TRUE, tree |-> tree]
  ELSE LET r == set_value2(tree, get_element_idx(tree, js, idx), T.elem,
                           value[idx + 1]) IN
       [ret |-> r.ret, tree |-> r.tree]

\* for (auto& v : value) if (!set_value(get_element(js, idx++), v)) return false;
SetVectorLoop(tree, js, T, value, idx) ==
  IF idx >= Len(value) THEN [ret |-> TRUE, tree |-> tree]
  ELSE LET r == set_value2(tree, get_element_idx(tree, js, idx), T.elem,
                           value[idx + 1]) IN
       IF ~r.ret THEN [ret |-> FALSE, tree |-> r.tree]
       ELSE SetVectorLoop(r.tree, js, T, value, idx + 1)

\* for (auto& v : value)
\*   if (!set_value(get_element(js, idx++), v, error)) return false;
SetArrayLoop(tree, js, T, value, idx, error) ==
  IF idx >= Len(value) THEN [ret |-> TRUE, tree |-> tree, error |-> error]
  ELSE LET r == set_value(tree, get_element_idx(tree, js, idx), T.elem,
                          value[idx + 1], error) IN
       IF ~r.ret THEN [ret |-> FALSE, tree |-> r.tree, error |-> r.error]
       ELSE SetArrayLoop(r.tree, js, T, value, idx + 1, r.error)

set_value(tree, js, T, value, error) ==
  CASE T.k = "int64" ->
         Stored(tree, js, set_integer(tree, js, value), error, Messages.integer_expected)
    [] T.k = "int32" -> set_value(tree, js, Native.int64, S64(value), error)
    [] T.k = "uint64" ->
         Stored(tree, js, set_unsigned(tree, js, value), error, Messages.unsigned_expected)
    [] T.k = "uint32" -> set_value(tree, js, Native.uint64, U64(value), error)
    [] T.k = "double" ->
         Stored(tree, js, set_real(tree, js, value), error, Messages.real_expected)
    [] T.k = "bool" ->
         Stored(tree, js, set_boolean(tree, js, value), error, Messages.boolean_expected)
    [] T.k = "string" ->
         Stored(tree, js, set_string(tree, js, value), error, Messages.string_expected)
    [] T.k = "vector" ->
         LET a == set_array_size(tree, js, Len(value)) IN
         IF a.ret
           THEN LET r == SetVectorLoop(a.tree, js, T, value, 0) IN
                [ret |-> r.ret, tree |-> r.tree, error |-> error]
           ELSE [ret |-> FALSE, tree |-> a.tree,
                 error |-> format_error(tree, js, Messages.array_expected)]
    [] T.k = "array" ->
         LET a == set_array_size(tree, js, Len(value)) IN
         IF a.ret
           THEN SetArrayLoop(a.tree, js, T, value, 0, error)
           ELSE [ret |-> FALSE, tree |-> a.tree,
                 error |-> format_error(tree, js, Messages.array_expected)]

\* set_value_at(json_view, size_t, const T&, string&): [ret, tree, error]
set_value_at_idx(tree, js, idx, T, value, error) ==
  LET ejs == get_element_idx(tree, js, idx) IN
  IF is_valid(ejs) THEN set_value(tree, ejs, T, value, error)
  ELSE [ret |-> FALSE, tree |-> tree,
        error |-> format_error(tree, js, Messages.array_expected)]

\* set_value_at(json_view, string_view, const T&, string&): [ret, tree, error]
set_value_at_key(tree, js, key, T, value, error) ==
  LET ejs == get_element_key(tree, js, key) IN
  IF is_valid(ejs) THEN set_value(tree, ejs, T, value, error)
  ELSE [ret |-> FALSE, tree |-> tree,
        error |-> format_error(tree, js, Messages.object_expected)]

\* insert_value_if writing the pair also when value == default_
insert_value_if_default_written(tree, js, key, T, value, default_, error) ==
  LET e == insert_element(tree, js, key) IN
  IF is_valid(e.view) THEN set_value(e.tree, e.view, T, value, error)
  ELSE [ret |-> FALSE, tree |-> e.tree,
        error |-> format_error(e.tree, js, Messages.object_expected)]

\* insert_value_if(json_view, string_view, const T&, const T& default_, string&):
\* [ret, tree, error]
insert_value_if(tree, js, key, T, value, default_, error) ==
  IF value = default_ THEN [ret |-> TRUE, tree |-> tree, error |-> error]
  ELSE LET e == insert_element(tree, js, key) IN
       IF is_valid(e.view) THEN set_value(e.tree, e.view, T, value, error)
       ELSE [ret |-> FALSE, tree |-> e.tree,
             error |-> format_error(e.tree, js, Messages.object_expected)]

(***************************************************************************)
(* Views in time. The calls below are followed step by step: st is         *)
(* [tree, log], the log holding one event for every use of a view, "use"   *)
(* for a read and "mutate" for set_type, resize, emplace_back through it.  *)
(* A view is [path, issued, null]: where its target is, and how many       *)
(* events the log held when the view was obtained.                         *)
(***************************************************************************)
ViewAt(path) == View(PtrTo(path), PtrTo(<<>>))

Issued(st, path) == [path |-> path, issued |-> Len(st.log), null |-> FALSE]
NotIssued == [path |-> <<>>, issued |-> 0, null |-> TRUE]

Uses(st, v) ==
  [st EXCEPT !.log = Append(@, [e |-> "use", path |-> v.path, issued |-> v.issued])]
Mutates(st, v, tree) ==
  [tree |-> tree,
   log |-> Append(st.log, [e |-> "mutate", path |-> v.path, issued |-> v.issued])]

\* set_value(json_view, const T&, string&), scalars and sequences: set_array
\* is set_type then resize_array; each element view is get_element(js, idx++)
RECURSIVE set_value_steps(_, _, _, _)
set_value_steps(st, js, T, value) ==
  IF T.k \in {"vector", "array"}
    THEN LET typed == Mutates(st, js, set_type(st.tree, ViewAt(js.path), "array").tree)
             sized == Mutates(typed, js,
                              resize_array(typed.tree, ViewAt(js.path), Len(value)).tree)
             RECURSIVE loop(_, _)
             loop(s, idx) ==
               IF idx >= Len(value) THEN s
               ELSE LET got == Uses(s, js)
                        ejs == Issued(got, js.path \o <<idx>>) IN
                    loop(set_value_steps(got, ejs, T.elem, value[idx + 1]), idx + 1) IN
         loop(sized, 0)
    ELSE Mutates(st, js, set_value(st.tree, ViewAt(js.path), T, value, <<>>).tree)

\* append_value, append_array and append_object taking the view of the new
\* element before append_element has grown the array
append_steps_view_first(st, js, what, T, value) ==
  IF is_array(st.tree, ViewAt(js.path))
    THEN LET ejs == Issued(st, js.path \o <<array_size(st.tree, ViewAt(js.path))>>)
             grown == Mutates(st, js, append_element(st.tree, ViewAt(js.path)).tree) IN
         IF what = "value"
           THEN [st |-> set_value_steps(grown, ejs, T, value), view |-> NotIssued]
           ELSE [st |-> Mutates(grown, ejs,
                                set_type(grown.tree, ViewAt(ejs.path), what).tree),
                 view |-> ejs]
    ELSE [st |-> Uses(st, js), view |-> NotIssued]

\* append_value (what = "value"), append_array and append_object: [st, view]
append_steps(st, js, what, T, value) ==
  IF is_array(st.tree, ViewAt(js.path))
    THEN LET grown == Mutates(st, js, append_element(st.tree, ViewAt(js.path)).tree)
             ejs == Issued(grown, js.path \o <<array_size(st.tree, ViewAt(js.path))>>) IN
         IF what = "value"
           THEN [st |-> set_value_steps(grown, ejs, T, value), view |-> NotIssued]
           ELSE [st |-> Mutates(grown, ejs,
                                set_type(grown.tree, ViewAt(ejs.path), what).tree),
                 view |-> ejs]
    ELSE [st |-> Uses(st, js), view |-> NotIssued]

\* insert_value (what = "value"), insert_value_if, insert_array and
\* insert_object: [st, view]. insert_element mutates the object only when the
\* key is not there
insert_steps(st, js, key, what, T, value, default_) ==
  IF what = "value_if" /\ value = default_ THEN [st |-> st, view |-> NotIssued]
  ELSE IF is_object(st.tree, ViewAt(js.path))
    THEN LET e == insert_element(st.tree, ViewAt(js.path), key)
             found == IF e.tree = st.tree THEN Uses(st, js) ELSE Mutates(st, js, e.tree)
             ejs == Issued(found, e.view.value.path) IN
         IF what \in {"value", "value_if"}
           THEN [st |-> set_value_steps(found, ejs, T, value), view |-> NotIssued]
           ELSE [st |-> Mutates(found, ejs,
                                set_type(found.tree, ViewAt(ejs.path), what).tree),
                 view |-> ejs]
    ELSE [st |-> Uses(st, js), view |-> NotIssued]

(***************************************************************************)
(* json_value: access through a reference. A member function that can      *)
(* throw yields a record with a field `thrown`; when it is TRUE the call   *)
(* ended in the exception and nothing else of the record was produced.     *)
(***************************************************************************)
\* json_value::get_integer .. get_binary as get(k): [thrown, value], value
\* being what the reference returned refers to
json_value_get(self, k) ==
  IF self.type # k THEN [thrown |-> TRUE, value |-> 0]
  ELSE [thrown |-> FALSE, value |-> IF k = "boolean" THEN BitsBool(self.v) ELSE self.v]

\* json_value::find: [thrown, pos], pos the 1-based position of the pair found
find(self, key) ==
  IF self.type # "object" THEN [thrown |-> TRUE, pos |-> 0]
  ELSE [thrown |-> FALSE, pos |-> FindKey(self.v, key)]

\* json_value::contains: [thrown, ret]
contains(self, key) ==
  LET f == find(self, key) IN [thrown |-> f.thrown, ret |-> ~f.thrown /\ f.pos # 0]

\* json_value::at(const string&): [thrown, pos]
at_key(self, key) ==
  LET f == find(self, key) IN
  IF f.thrown \/ f.pos = 0 THEN [thrown |-> TRUE, pos |-> 0]
  ELSE [thrown |-> FALSE, pos |-> f.pos]

\* operator[](const string&) appending a pair without looking the key up
index_key_always_appends(self, key) ==
  LET f == find(self, key) IN
  IF f.thrown THEN [thrown |-> TRUE, self |-> self, pos |-> 0]
  ELSE [thrown |-> FALSE,
        self |-> [self EXCEPT !.v = Append(@, Pair(key, json_value_default))],
        pos |-> Len(self.v) + 1]

\* json_value::operator[](const string&): [thrown, self, pos]
index_key(self, key) ==
  LET f == find(self, key) IN
  IF f.thrown THEN [thrown |-> TRUE, self |-> self, pos |-> 0]
  ELSE IF f.pos # 0 THEN [thrown |-> FALSE, self |-> self, pos |-> f.pos]
  ELSE [thrown |-> FALSE,
        self |-> [self EXCEPT !.v = Append(@, Pair(key, json_value_default))],
        pos |-> Len(self.v) + 1]

\* at(size_t) accepting the index one past the last element
at_idx_off_by_one(self, idx) ==
  IF self.type # "array" \/ ~(idx <= Len(self.v)) THEN [thrown |-> TRUE, pos |-> 0]
  ELSE [thrown |-> FALSE, pos |-> idx + 1]

\* json_value::at(size_t), operator[](size_t): [thrown, pos]
at_idx(self, idx) ==
  IF self.type # "array" \/ ~(idx < Len(self.v)) THEN [thrown |-> TRUE, pos |-> 0]
  ELSE [thrown |-> FALSE, pos |-> idx + 1]

\* json_value::push_back(const json_value&): [thrown, self]
push_back(self, value) ==
  IF self.type # "array" THEN [thrown |-> TRUE, self |-> self]
  ELSE [thrown |-> FALSE, self |-> [self EXCEPT !.v = Append(@, json_value_copy(value))]]

\* the character and the byte string::resize and vector<uint8_t>::resize append
NulChar == "\\0"

\* json_value::size: [thrown, ret]
json_value_size(self) ==
  IF self.type \in {"string", "array", "object", "binary"}
    THEN [thrown |-> FALSE, ret |-> Len(self.v)]
    ELSE [thrown |-> TRUE, ret |-> 0]

\* json_value::empty: [thrown, ret]
json_value_empty(self) ==
  LET r == json_value_size(self) IN [thrown |-> r.thrown, ret |-> ~r.thrown /\ r.ret = 0]

\* json_value::resize: [thrown, self]
json_value_resize(self, n) ==
  CASE self.type = "string" ->
         [thrown |-> FALSE, self |-> [self EXCEPT !.v = VectorResize(@, n, NulChar)]]
    [] self.type = "array" ->
         [thrown |-> FALSE,
          self |-> [self EXCEPT !.v = VectorResize(@, n, json_value_default)]]
    [] self.type = "binary" ->
         [thrown |-> FALSE, self |-> [self EXCEPT !.v = VectorResize(@, n, 0)]]
    [] OTHER -> [thrown |-> TRUE, self |-> self]

\* json_value::reserve: [thrown, self]
json_value_reserve(self, n) ==
  IF self.type \in {"string", "array", "object", "binary"}
    THEN [thrown |-> FALSE, self |-> self]
    ELSE [thrown |-> TRUE, self |-> self]

(***************************************************************************)
(* The state machine. `doc` is the json_value that owns the tree; `last`   *)
(* records the operation performed last: its arguments, its results, the   *)
(* tree before it (`pre`) and the second json_value it involved after it   *)
(* (`other`). Where a call is repeated or followed up, `ret0`, `view0` and *)
(* `pre0` keep the result, the view returned and the tree before the       *)
(* first call.                                                             *)
(***************************************************************************)
\* longest string, byte sequence and resize argument
MaxLen == 2

Keys == {<<"a">>, <<"b">>}
IntArgs == {1, 2}
UnsignedArgs == {5}
RealArgs == {3}
StringArgs == {<<"x">>}
BinaryArgs == {<<7>>}
SizeArgs == 0..MaxLen

\* a view with a null target, as get_element returns on failure
InvalidView == View(NullPtr, PtrTo(<<>>))

\* the views a caller can hold on the tree: one per node, and the invalid one
Views(tree) == {View(PtrTo(p), PtrTo(<<>>)) : p \in PathsOf(tree)} \cup {InvalidView}

\* json_array and json_object values handed to constructors
ArrayArgs ==
  {<<>>, <<json_value_integer(1)>>, <<json_value_integer(1), json_value_integer(2)>>}
ObjectArgs ==
  {<<>>} \cup {<<Pair(k, json_value_integer(1))>> : k \in Keys} \cup
  {<<Pair(k1, json_value_integer(1)), Pair(k2, json_value_integer(2))>> :
     k1 \in Keys, k2 \in Keys}

\* the json_values the typed constructors build
TypedTemps ==
  {json_value_default} \cup {json_value_integer(x) : x \in IntArgs} \cup
  {json_value_unsigned(x) : x \in UnsignedArgs} \cup
  {json_value_real(x) : x \in RealArgs} \cup
  {json_value_boolean(x) : x \in BOOLEAN} \cup
  {json_value_string(x) : x \in StringArgs} \cup
  {json_value_array(x) : x \in ArrayArgs} \cup
  {json_value_object(x) : x \in ObjectArgs} \cup
  {json_value_binary(x) : x \in BinaryArgs}

\* the second json_value of a copy, a move or a swap
Operands ==
  {json_value_integer(2), json_value_string(<<"x">>),
   json_value_object(<<Pair(<<"a">>, json_value_integer(1))>>)}

NoLast ==
  [op |-> "idle", ref |-> <<>>, js |-> InvalidView, t |-> "null", key |-> <<>>,
   idx |-> 0, arg |-> 0, ret |-> FALSE, thrown |-> FALSE, view |-> InvalidView,
   pos |-> 0, out |-> 0, out0 |-> 0, error |-> <<>>, pre |-> json_value_default,
   other |-> json_value_default, T |-> Native.bool, ret0 |-> FALSE,
   view0 |-> InvalidView, pre0 |-> json_value_default, default_ |-> 0,
   error0 |-> <<>>]

Fits(tree) == NodeCount(tree) <= MaxNodes

Init == doc = json_value_default /\ last = NoLast

\* no call is in progress: the results of the last one have been consumed
Idle == last.op = "idle"

\* the caller is done with the results of the last call
Return ==
  /\ ~Idle
  /\ doc' = doc
  /\ last' = NoLast

\* the record of an operation `op` on the json_value at `ref` of the tree
OnValue(op, ref) == [NoLast EXCEPT !.op = op, !.ref = ref, !.pre = doc]

\* the record of an operation `op` on the view `js`
OnView(op, js) == [NoLast EXCEPT !.op = op, !.js = js, !.pre = doc]

\* json_value::set_type on a json_value of the tree
ValueSetType ==
  /\ Idle
  /\ \E ref \in PathsOf(doc), t \in json_type :
    /\ doc' = ReplaceAt(doc, ref, json_value_set_type(NodeAt(doc, ref), t))
    /\ last' = [OnValue("json_value::set_type", ref) EXCEPT !.t = t]

\* typed assignment: operator=(nullptr_t), (int64_t), ..., (const json_binary&)
ValueAssign ==
  /\ Idle
  /\ \E ref \in PathsOf(doc), js \in TypedTemps :
    LET d == ReplaceAt(doc, ref, assign_value(NodeAt(doc, ref), js)) IN
    /\ Fits(d)
    /\ doc' = d
    /\ last' = [OnValue("operator=(T)", ref) EXCEPT !.arg = js]

\* copy assignment from another json_value, or from itself
ValueCopyAssign ==
  /\ Idle
  /\ \E ref \in PathsOf(doc) : \E value \in Operands \cup {NodeAt(doc, ref)} :
    LET d == ReplaceAt(doc, ref, assign_copy(NodeAt(doc, ref), value)) IN
    /\ Fits(d)
    /\ doc' = d
    /\ last' = [OnValue("operator=(const json_value&)", ref) EXCEPT
                  !.arg = value, !.other = value]

\* move assignment from another json_value
ValueMoveAssign ==
  /\ Idle
  /\ \E ref \in PathsOf(doc), value \in Operands :
    LET r == assign_move(NodeAt(doc, ref), value)
        d == ReplaceAt(doc, ref, r.self) IN
    /\ Fits(d)
    /\ doc' = d
    /\ last' = [OnValue("operator=(json_value&&)", ref) EXCEPT
                  !.arg = value, !.other = r.other]

\* swap with another json_value
ValueSwap ==
  /\ Idle
  /\ \E ref \in PathsOf(doc), value \in Operands :
    LET r == swap(NodeAt(doc, ref), value)
        d == ReplaceAt(doc, ref, r.self) IN
    /\ Fits(d)
    /\ doc' = d
    /\ last' = [OnValue("swap", ref) EXCEPT !.arg = value, !.other = r.other]

\* a.swap(a)
ValueSwapSelf ==
  /\ Idle
  /\ \E ref \in PathsOf(doc) :
    LET r == swap(NodeAt(doc, ref), NodeAt(doc, ref)) IN
    /\ doc' = ReplaceAt(doc, ref, r.self)
    /\ last' = [OnValue("swap(self)", ref) EXCEPT !.other = r.other]

\* json_value b{a}: copy construction from a json_value of the tree
ValueCopyConstruct ==
  /\ Idle
  /\ \E ref \in PathsOf(doc) :
    /\ doc' = doc
    /\ last' = [OnValue("json_value(const json_value&)", ref) EXCEPT
                  !.other = json_value_copy(NodeAt(doc, ref))]

\* json_value b{std::move(a)}: move construction from a json_value of the tree
ValueMoveConstruct ==
  /\ Idle
  /\ \E ref \in PathsOf(doc) :
    LET r == json_value_move(NodeAt(doc, ref)) IN
    /\ doc' = ReplaceAt(doc, ref, r.other)
    /\ last' = [OnValue("json_value(json_value&&)", ref) EXCEPT !.other = r.self]

\* json_value::size
ValueSize ==
  /\ Idle
  /\ \E ref \in PathsOf(doc) :
    LET r == json_value_size(NodeAt(doc, ref)) IN
    /\ doc' = doc
    /\ last' = [OnValue("size", ref) EXCEPT !.thrown = r.thrown, !.out = r.ret]

\* json_value::empty
ValueEmpty ==
  /\ Idle
  /\ \E ref \in PathsOf(doc) :
    LET r == json_value_empty(NodeAt(doc, ref)) IN
    /\ doc' = doc
    /\ last' = [OnValue("empty", ref) EXCEPT !.thrown = r.thrown, !.ret = r.ret]

\* json_value::resize
ValueResize ==
  /\ Idle
  /\ \E ref \in PathsOf(doc), n \in SizeArgs :
    LET r == json_value_resize(NodeAt(doc, ref), n)
        d == ReplaceAt(doc, ref, r.self) IN
    /\ Fits(d)
    /\ doc' = d
    /\ last' = [OnValue("resize", ref) EXCEPT !.idx = n, !.thrown = r.thrown]

\* json_value::reserve
ValueReserve ==
  /\ Idle
  /\ \E ref \in PathsOf(doc), n \in SizeArgs :
    LET r == json_value_reserve(NodeAt(doc, ref), n) IN
    /\ doc' = ReplaceAt(doc, ref, r.self)
    /\ last' = [OnValue("reserve", ref) EXCEPT !.idx = n, !.thrown = r.thrown]

\* json_value::push_back
ValuePushBack ==
  /\ Idle
  /\ \E ref \in PathsOf(doc), value \in Operands :
    LET r == push_back(NodeAt(doc, ref), value)
        d == ReplaceAt(doc, ref, r.self) IN
    /\ Fits(d)
    /\ doc' = d
    /\ last' = [OnValue("push_back", ref) EXCEPT
                  !.arg = value, !.other = value, !.thrown = r.thrown]

\* json_value::operator[](const string&)
ValueIndexKey ==
  /\ Idle
  /\ \E ref \in PathsOf(doc), key \in Keys :
    LET r == index_key(NodeAt(doc, ref), key)
        d == ReplaceAt(doc, ref, r.self) IN
    /\ Fits(d)
    /\ doc' = d
    /\ last' = [OnValue("operator[](key)", ref) EXCEPT
                  !.key = key, !.thrown = r.thrown, !.pos = r.pos]

\* obj[key] = value: operator[](const string&), then operator=(int32_t) on
\* the json_value it returns
ValueIndexAssign ==
  /\ Idle
  /\ \E ref \in PathsOf(doc), key \in Keys, value \in IntArgs :
    LET r == index_key(NodeAt(doc, ref), key)
        e == IF r.thrown THEN r.self
             ELSE WithChild(r.self, r.pos - 1,
                            assign_value(Child(r.self, r.pos - 1),
                                         json_value_integer(value)))
        d == ReplaceAt(doc, ref, e) IN
    /\ Fits(d)
    /\ doc' = d
    /\ last' = [OnValue("operator[](key)=", ref) EXCEPT
                  !.key = key, !.arg = value, !.thrown = r.thrown, !.pos = r.pos]

\* obj[key] = value once more, with another value, right after obj[key] = ...
ValueIndexAssignAgain ==
  /\ last.op = "operator[](key)="
  /\ ~last.thrown
  /\ \E value \in IntArgs \ {last.arg} :
       LET r == index_key(NodeAt(doc, last.ref), last.key)
           e == WithChild(r.self, r.pos - 1,
                          assign_value(Child(r.self, r.pos - 1),
                                       json_value_integer(value)))
           d == ReplaceAt(doc, last.ref, e) IN
       /\ Fits(d)
       /\ doc' = d
       /\ last' = [OnValue("operator[](key)= again", last.ref) EXCEPT
                     !.key = last.key, !.arg = value, !.thrown = r.thrown,
                     !.pos = r.pos, !.pre0 = last.pre]

\* json_value::get_integer, get_unsigned, get_real, get_boolean, get_string,
\* get_array, get_object, get_binary
ValueGet ==
  /\ Idle
  /\ \E ref \in PathsOf(doc), k \in json_type \ {"null"} :
    LET r == json_value_get(NodeAt(doc, ref), k) IN
    /\ doc' = doc
    /\ last' = [OnValue("json_value::get", ref) EXCEPT
                  !.t = k, !.thrown = r.thrown, !.out = r.value]

\* json_value::find
ValueFind ==
  /\ Idle
  /\ \E ref \in PathsOf(doc), key \in Keys :
    LET r == find(NodeAt(doc, ref), key) IN
    /\ doc' = doc
    /\ last' = [OnValue("find", ref) EXCEPT
                  !.key = key, !.thrown = r.thrown, !.pos = r.pos]

\* json_value::at(const string&)
ValueAtKey ==
  /\ Idle
  /\ \E ref \in PathsOf(doc), key \in Keys :
    LET r == at_key(NodeAt(doc, ref), key) IN
    /\ doc' = doc
    /\ last' = [OnValue("at(key)", ref) EXCEPT
                  !.key = key, !.thrown = r.thrown, !.pos = r.pos]

\* json_value::contains
ValueContains ==
  /\ Idle
  /\ \E ref \in PathsOf(doc), key \in Keys :
    LET r == contains(NodeAt(doc, ref), key) IN
    /\ doc' = doc
    /\ last' = [OnValue("contains", ref) EXCEPT
                  !.key = key, !.thrown = r.thrown, !.ret = r.ret]

\* json_value::at(size_t), json_value::operator[](size_t)
ValueAtIdx ==
  /\ Idle
  /\ \E ref \in PathsOf(doc), idx \in SizeArgs :
    LET r == at_idx(NodeAt(doc, ref), idx) IN
    /\ doc' = doc
    /\ last' = [OnValue("at(idx)", ref) EXCEPT
                  !.idx = idx, !.thrown = r.thrown, !.pos = r.pos]

(***************************************************************************)
(* Operations on views                                                     *)
(***************************************************************************)
ViewGetType ==
  /\ Idle
  /\ \E js \in Views(doc) :
    /\ doc' = doc
    /\ last' = [OnView("get_type", js) EXCEPT !.t = get_type(doc, js)]

\* is_null .. is_binary, is_integral and is_number
ViewIsKind ==
  /\ Idle
  /\ \E js \in Views(doc), k \in json_type \cup {"integral", "number"} :
    /\ doc' = doc
    /\ last' = [OnView("is_kind", js) EXCEPT !.t = k, !.ret = is_kind(doc, js, k)]

ViewSetType ==
  /\ Idle
  /\ \E js \in Views(doc), t \in json_type :
    LET r == set_type(doc, js, t) IN
    /\ doc' = r.tree
    /\ last' = [OnView("set_type", js) EXCEPT !.t = t, !.ret = r.ret]

ViewSetNull ==
  /\ Idle
  /\ \E js \in Views(doc) :
    LET r == set_null(doc, js) IN
    /\ doc' = r.tree
    /\ last' = [OnView("set_null", js) EXCEPT !.t = "null", !.ret = r.ret]

ViewSetInteger ==
  /\ Idle
  /\ \E js \in Views(doc), value \in IntArgs :
    LET r == set_integer(doc, js, value) IN
    /\ doc' = r.tree
    /\ last' = [OnView("set_integer", js) EXCEPT
                  !.t = "integer", !.arg = value, !.ret = r.ret]

ViewSetUnsigned ==
  /\ Idle
  /\ \E js \in Views(doc), value \in UnsignedArgs :
    LET r == set_unsigned(doc, js, value) IN
    /\ doc' = r.tree
    /\ last' = [OnView("set_unsigned", js) EXCEPT
                  !.t = "unsigned", !.arg = value, !.ret = r.ret]

ViewSetReal ==
  /\ Idle
  /\ \E js \in Views(doc), value \in RealArgs :
    LET r == set_real(doc, js, value) IN
    /\ doc' = r.tree
    /\ last' = [OnView("set_real", js) EXCEPT
                  !.t = "real", !.arg = value, !.ret = r.ret]

ViewSetBoolean ==
  /\ Idle
  /\ \E js \in Views(doc), value \in BOOLEAN :
    LET r == set_boolean(doc, js, value) IN
    /\ doc' = r.tree
    /\ last' = [OnView("set_boolean", js) EXCEPT
                  !.t = "boolean", !.arg = value, !.ret = r.ret]

ViewSetString ==
  /\ Idle
  /\ \E js \in Views(doc), value \in StringArgs :
    LET r == set_string(doc, js, value) IN
    /\ doc' = r.tree
    /\ last' = [OnView("set_string", js) EXCEPT
                  !.t = "string", !.arg = value, !.ret = r.ret]

ViewSetBinary ==
  /\ Idle
  /\ \E js \in Views(doc), value \in BinaryArgs :
    LET r == set_binary(doc, js, value) IN
    /\ doc' = r.tree
    /\ last' = [OnView("set_binary", js) EXCEPT
                  !.t = "binary", !.arg = value, !.ret = r.ret]

ViewSetArray ==
  /\ Idle
  /\ \E js \in Views(doc) :
    LET r == set_array(doc, js) IN
    /\ doc' = r.tree
    /\ last' = [OnView("set_array", js) EXCEPT !.t = "array", !.ret = r.ret]

ViewSetArraySize ==
  /\ Idle
  /\ \E js \in Views(doc), n \in SizeArgs :
    LET r == set_array_size(doc, js, n) IN
    /\ Fits(r.tree)
    /\ doc' = r.tree
    /\ last' = [OnView("set_array(size)", js) EXCEPT
                  !.t = "array", !.idx = n, !.ret = r.ret]

ViewSetObject ==
  /\ Idle
  /\ \E js \in Views(doc) :
    LET r == set_object(doc, js) IN
    /\ doc' = r.tree
    /\ last' = [OnView("set_object", js) EXCEPT !.t = "object", !.ret = r.ret]

ViewResizeArray ==
  /\ Idle
  /\ \E js \in Views(doc), n \in SizeArgs :
    LET r == resize_array(doc, js, n) IN
    /\ Fits(r.tree)
    /\ doc' = r.tree
    /\ last' = [OnView("resize_array", js) EXCEPT !.idx = n, !.ret = r.ret]

\* the getters: `out0` is the out-parameter before the call, `out` after it
ViewGetInteger ==
  /\ Idle
  /\ \E js \in Views(doc), value \in {9} :
    LET r == get_integer(doc, js, value) IN
    /\ doc' = doc
    /\ last' = [OnView("get_integer", js) EXCEPT !.out0 = value, !.out = r.value, !.ret = r.ret]

ViewGetUnsigned ==
  /\ Idle
  /\ \E js \in Views(doc), value \in {9} :
    LET r == get_unsigned(doc, js, value) IN
    /\ doc' = doc
    /\ last' = [OnView("get_unsigned", js) EXCEPT !.out0 = value, !.out = r.value, !.ret = r.ret]

ViewGetReal ==
  /\ Idle
  /\ \E js \in Views(doc), value \in {9} :
    LET r == get_real(doc, js, value) IN
    /\ doc' = doc
    /\ last' = [OnView("get_real", js) EXCEPT !.out0 = value, !.out = r.value, !.ret = r.ret]

ViewGetBoolean ==
  /\ Idle
  /\ \E js \in Views(doc), value \in BOOLEAN :
    LET r == get_boolean(doc, js, value) IN
    /\ doc' = doc
    /\ last' = [OnView("get_boolean", js) EXCEPT !.out0 = value, !.out = r.value, !.ret = r.ret]

ViewGetString ==
  /\ Idle
  /\ \E js \in Views(doc), value \in {<<"z">>} :
    LET r == get_string(doc, js, value) IN
    /\ doc' = doc
    /\ last' = [OnView("get_string", js) EXCEPT !.out0 = value, !.out = r.value, !.ret = r.ret]

ViewGetBinary ==
  /\ Idle
  /\ \E js \in Views(doc), value \in {<<9>>} :
    LET r == get_binary(doc, js, value) IN
    /\ doc' = doc
    /\ last' = [OnView("get_binary", js) EXCEPT !.out0 = value, !.out = r.value, !.ret = r.ret]

ViewGetIntegralI64 ==
  /\ Idle
  /\ \E js \in Views(doc), value \in {9} :
    LET r == get_integral_i64(doc, js, value) IN
    /\ doc' = doc
    /\ last' = [OnView("get_integral_i64", js) EXCEPT !.out0 = value, !.out = r.value, !.ret = r.ret]

ViewGetIntegralU64 ==
  /\ Idle
  /\ \E js \in Views(doc), value \in {9} :
    LET r == get_integral_u64(doc, js, value) IN
    /\ doc' = doc
    /\ last' = [OnView("get_integral_u64", js) EXCEPT !.out0 = value, !.out = r.value, !.ret = r.ret]

ViewGetNumber ==
  /\ Idle
  /\ \E js \in Views(doc), value \in {9} :
    LET r == get_number(doc, js, value) IN
    /\ doc' = doc
    /\ last' = [OnView("get_number", js) EXCEPT !.out0 = value, !.out = r.value, !.ret = r.ret]

ViewGetElementIdx ==
  /\ Idle
  /\ \E js \in Views(doc), idx \in SizeArgs :
    /\ doc' = doc
    /\ last' = [OnView("get_element(idx)", js) EXCEPT
                  !.idx = idx, !.view = get_element_idx(doc, js, idx),
                  !.thrown = get_element_idx_throws(doc, js, idx)]

\* resize_array(js, size) by a caller that keeps the view get_element(js, idx)
\* has just returned
ViewResizeArrayHeld ==
  /\ last.op = "get_element(idx)"
  /\ is_valid(last.view)
  /\ \E n \in SizeArgs :
    LET r == resize_array(doc, last.js, n) IN
    /\ Fits(r.tree)
    /\ doc' = r.tree
    /\ last' = [OnView("resize_array, view held", last.js) EXCEPT
                  !.idx = last.idx, !.arg = n, !.view0 = last.view,
                  !.ret = r.ret]

\* get_integer through the view kept across the resize_array. vector::resize
\* to no more than the old size keeps the elements below the new size where
\* they were, so the kept pointer is good if its element is one of them.
\* Otherwise the pointer dangles (the element was destroyed, or the vector
\* may have moved its storage) and the read is undefined: any result, or a
\* fault, recorded as thrown
ViewGetIntegerHeld ==
  /\ last.op = "resize_array, view held"
  /\ doc' = doc
  /\ IF last.idx < last.arg /\ last.arg <= array_size(last.pre, last.js)
       THEN LET r == get_integer(doc, last.view0, 9) IN
            last' = [OnView("get_integer, view held", last.js) EXCEPT
                       !.idx = last.idx, !.arg = last.arg, !.view0 = last.view0,
                       !.pre0 = last.pre, !.out0 = 9, !.out = r.value,
                       !.ret = r.ret]
       ELSE \E ret \in BOOLEAN, out \in IntArgs \cup {9}, thrown \in BOOLEAN :
            last' = [OnView("get_integer, view held", last.js) EXCEPT
                       !.idx = last.idx, !.arg = last.arg, !.view0 = last.view0,
                       !.pre0 = last.pre, !.out0 = 9, !.out = out,
                       !.ret = ret, !.thrown = thrown]

ViewGetElementKey ==
  /\ Idle
  /\ \E js \in Views(doc), key \in Keys :
    /\ doc' = doc
    /\ last' = [OnView("get_element(key)", js) EXCEPT
                  !.key = key, !.view = get_element_key(doc, js, key)]

ViewHasElement ==
  /\ Idle
  /\ \E js \in Views(doc), key \in Keys :
    /\ doc' = doc
    /\ last' = [OnView("has_element", js) EXCEPT
                  !.key = key, !.ret = has_element(doc, js, key)]

ViewAppendElement ==
  /\ Idle
  /\ \E js \in Views(doc) :
    LET r == append_element(doc, js) IN
    /\ Fits(r.tree)
    /\ doc' = r.tree
    /\ last' = [OnView("append_element", js) EXCEPT !.view = r.view]

ViewInsertElement ==
  /\ Idle
  /\ \E js \in Views(doc), key \in Keys :
    LET r == insert_element(doc, js, key) IN
    /\ Fits(r.tree)
    /\ doc' = r.tree
    /\ last' = [OnView("insert_element", js) EXCEPT !.key = key, !.view = r.view]

\* insert_element once more, with the same view and key, right after a call
ViewInsertElementAgain ==
  /\ last.op = "insert_element"
  /\ LET r == insert_element(doc, last.js, last.key) IN
     /\ Fits(r.tree)
     /\ doc' = r.tree
     /\ last' = [OnView("insert_element again", last.js) EXCEPT
                   !.key = last.key, !.view = r.view, !.view0 = last.view,
                   !.pre0 = last.pre]

ViewComputePath ==
  /\ Idle
  /\ \E js \in Views(doc) :
    /\ doc' = doc
    /\ last' = [OnView("compute_path", js) EXCEPT !.out = compute_path(doc, js)]

\* the native types and the initial out-parameters of the keyed reads
ReadTypes == {Native.int64, Native.string}
Sentinel(T) ==
  CASE T.k = "string" -> <<"z">>
    [] T.k = "bool" -> TRUE
    [] T.k = "vector" -> <<9>>
    [] T.k = "array" -> [i \in 1..T.n |-> 9]
    [] OTHER -> 9

ViewGetValueAtKey ==
  /\ Idle
  /\ \E js \in Views(doc), key \in Keys, T \in ReadTypes :
    LET r == get_value_at_key(doc, js, key, T, Sentinel(T), <<>>) IN
    /\ doc' = doc
    /\ last' = [OnView("get_value_at(key)", js) EXCEPT
                  !.key = key, !.t = T.k, !.out0 = Sentinel(T), !.out = r.value,
                  !.ret = r.ret, !.error = r.error]

ViewGetValueAtIdx ==
  /\ Idle
  /\ \E js \in Views(doc), idx \in SizeArgs, T \in ReadTypes :
    LET r == get_value_at_idx(doc, js, idx, T, Sentinel(T), <<>>) IN
    /\ doc' = doc
    /\ last' = [OnView("get_value_at(idx)", js) EXCEPT
                  !.idx = idx, !.t = T.k, !.out0 = Sentinel(T), !.out = r.value,
                  !.ret = r.ret, !.error = r.error,
                  !.thrown = get_element_idx_throws(doc, js, idx)]

\* the error string a caller passes in, left from an earlier call
ErrorBefore == <<"e">>

\* the native types get_value is called with
ConvTypes ==
  {Native.int64, Native.int32, Native.uint64, Native.uint32, Native.double,
   Native.bool, Native.string, T_vector(Native.int64), T_array(Native.int64, 1),
   T_array(Native.int64, 2)}

\* views made from two pointers that do not belong together: the root is a
\* json_value inside the tree and the target is the tree's root
ForeignViews(tree) == {View(PtrTo(<<>>), PtrTo(r)) : r \in PathsOf(tree) \ {<<>>}}

\* get_value(js, value, error)
ViewGetValue ==
  /\ Idle
  /\ \E js \in Views(doc) \cup ForeignViews(doc), T \in ConvTypes :
    LET r == get_value(doc, js, T, Sentinel(T), ErrorBefore) IN
    /\ doc' = doc
    /\ last' = [OnView("get_value(js)", js) EXCEPT
                  !.T = T, !.out0 = Sentinel(T), !.out = r.value, !.ret = r.ret,
                  !.error0 = ErrorBefore, !.error = r.error,
                  !.thrown = get_value_throws(doc, js, T, Sentinel(T))]

\* the native values set_value is given: pairs <<T, value>>
SetArgs ==
  {<<Native.int64, 1>>, <<Native.string, <<"x">>>>} \cup
  {<<T_vector(Native.int64), x>> : x \in {<<>>, <<1>>, <<2, 1>>}} \cup
  {<<T_array(Native.int64, 1), <<2>>>>, <<T_array(Native.int64, 2), <<1, 2>>>>}

\* the native values set_value_at is given
SetAtArgs == {<<Native.int64, 1>>, <<T_vector(Native.int64), <<1>>>>}

\* set_value_at(js, idx, value, error)
ViewSetValueAtIdx ==
  /\ Idle
  /\ \E js \in Views(doc), idx \in SizeArgs, in \in SetAtArgs :
    LET r == set_value_at_idx(doc, js, idx, in[1], in[2], ErrorBefore) IN
    /\ Fits(r.tree)
    /\ doc' = r.tree
    /\ last' = [OnView("set_value_at(idx)", js) EXCEPT
                  !.idx = idx, !.T = in[1], !.arg = in[2], !.ret = r.ret,
                  !.error0 = ErrorBefore, !.error = r.error]

\* set_value_at(js, key, value, error)
ViewSetValueAtKey ==
  /\ Idle
  /\ \E js \in Views(doc), key \in Keys, in \in SetAtArgs :
    LET r == set_value_at_key(doc, js, key, in[1], in[2], ErrorBefore) IN
    /\ Fits(r.tree)
    /\ doc' = r.tree
    /\ last' = [OnView("set_value_at(key)", js) EXCEPT
                  !.key = key, !.T = in[1], !.arg = in[2], !.ret = r.ret,
                  !.error0 = ErrorBefore, !.error = r.error]

\* get_value_if(js, key, value, error)
ViewGetValueIf ==
  /\ Idle
  /\ \E js \in Views(doc), key \in Keys,
        T \in {Native.int64, Native.string, T_vector(Native.int64)} :
    LET r == get_value_if(doc, js, key, T, Sentinel(T), ErrorBefore) IN
    /\ doc' = doc
    /\ last' = [OnView("get_value_if", js) EXCEPT
                  !.key = key, !.T = T, !.out0 = Sentinel(T), !.out = r.value,
                  !.ret = r.ret, !.error0 = ErrorBefore, !.error = r.error]

\* set_value(js, value, error)
ViewSetValue ==
  /\ Idle
  /\ \E js \in Views(doc), in \in SetArgs :
    LET r == set_value(doc, js, in[1], in[2], ErrorBefore) IN
    /\ Fits(r.tree)
    /\ doc' = r.tree
    /\ last' = [OnView("set_value(js)", js) EXCEPT
                  !.T = in[1], !.arg = in[2], !.ret = r.ret,
                  !.error0 = ErrorBefore, !.error = r.error]

\* the native values insert_value_if is given: pairs <<T, value, default_>>
WriteArgs ==
  {<<Native.int64, x, y>> : x \in {0, 1}, y \in {0, 1}} \cup
  {<<Native.string, x, y>> : x \in {<<>>, <<"x">>}, y \in {<<>>}}

ViewInsertValueIf ==
  /\ Idle
  /\ \E js \in Views(doc), key \in Keys, in \in WriteArgs :
    LET r == insert_value_if(doc, js, key, in[1], in[2], in[3], ErrorBefore) IN
    /\ Fits(r.tree)
    /\ doc' = r.tree
    /\ last' = [OnView("insert_value_if", js) EXCEPT
                  !.key = key, !.T = in[1], !.arg = in[2], !.default_ = in[3],
                  !.ret = r.ret, !.error0 = ErrorBefore, !.error = r.error]

\* empty(js) and size(js), array_empty(js) and array_size(js), or
\* object_empty(js) and object_size(js), asked of the same view
ViewEmptyAndSize ==
  /\ Idle
  /\ \E js \in Views(doc), which \in {"any", "array", "object"} :
    /\ doc' = doc
    /\ last' = [OnView("empty and size", js) EXCEPT
                  !.t = which,
                  !.ret = CASE which = "any" -> empty(doc, js)
                            [] which = "array" -> array_empty(doc, js)
                            [] which = "object" -> object_empty(doc, js),
                  !.out = CASE which = "any" -> size(doc, js)
                            [] which = "array" -> array_size(doc, js)
                            [] which = "object" -> object_size(doc, js)]

\* the native values the followed calls are given: pairs <<T, value>>
StepArgs ==
  {<<Native.int64, 1>>, <<T_vector(Native.int64), <<1, 2>>>>,
   <<T_array(Native.int64, 1), <<2>>>>,
   <<T_vector(T_vector(Native.int64)), <<<<1>>>>>>,
   <<T_vector(T_vector(Native.int64)), <<<<>>, <<>>>>>>}

\* the view a caller hands to a followed call, and the state it starts in
Handed(js) == [path |-> js.value.path, issued |-> 0, null |-> FALSE]
Start == [tree |-> doc, log |-> <<>>]

\* set_value(js, value, error), followed
StepsSetValue ==
  /\ Idle
  /\ \E js \in Views(doc) \ {InvalidView}, in \in StepArgs :
    LET r == set_value_steps(Start, Handed(js), in[1], in[2]) IN
    /\ Fits(r.tree)
    /\ doc' = r.tree
    /\ last' = [OnView("set_value, followed", js) EXCEPT
                  !.T = in[1], !.arg = in[2], !.out = r.log, !.out0 = NotIssued]

\* append_value, append_array and append_object, followed
StepsAppend ==
  /\ Idle
  /\ \E js \in Views(doc) \ {InvalidView}, what \in {"value", "array", "object"} :
    \E in \in IF what = "value" THEN StepArgs ELSE {<<Native.int64, 1>>} :
    LET r == append_steps(Start, Handed(js), what, in[1], in[2]) IN
    /\ Fits(r.st.tree)
    /\ doc' = r.st.tree
    /\ last' = [OnView("append, followed", js) EXCEPT
                  !.t = what, !.T = in[1], !.arg = in[2], !.out = r.st.log,
                  !.out0 = r.view]

\* insert_value, insert_value_if, insert_array and insert_object, followed
StepsInsert ==
  /\ Idle
  /\ \E js \in Views(doc) \ {InvalidView}, key \in Keys,
        what \in {"value", "value_if", "array", "object"} :
    \E in \in IF what = "value" THEN StepArgs
               ELSE IF what = "value_if" THEN {<<Native.int64, 0>>, <<Native.int64, 1>>}
               ELSE {<<Native.int64, 1>>} :
    LET r == insert_steps(Start, Handed(js), key, what, in[1], in[2],
                          DefaultNative(in[1])) IN
    /\ Fits(r.st.tree)
    /\ doc' = r.st.tree
    /\ last' = [OnView("insert, followed", js) EXCEPT
                  !.t = what, !.key = key, !.T = in[1], !.arg = in[2],
                  !.out = r.st.log, !.out0 = r.view]

Next ==
  \/ Return
  \/ ValueSetType
  \/ ValueAssign
  \/ ValueCopyAssign
  \/ ValueMoveAssign
  \/ ValueSwap
  \/ ValueSwapSelf
  \/ ValueCopyConstruct
  \/ ValueMoveConstruct
  \/ ValueSize
  \/ ValueEmpty
  \/ ValueResize
  \/ ValueReserve
  \/ ValuePushBack
  \/ ValueIndexKey
  \/ ValueIndexAssign
  \/ ValueIndexAssignAgain
  \/ ValueGet
  \/ ValueFind
  \/ ValueAtKey
  \/ ValueContains
  \/ ValueAtIdx
  \/ ViewGetType
  \/ ViewIsKind
  \/ ViewSetType
  \/ ViewSetNull
  \/ ViewSetInteger
  \/ ViewSetUnsigned
  \/ ViewSetReal
  \/ ViewSetBoolean
  \/ ViewSetString
  \/ ViewSetBinary
  \/ ViewSetArray
  \/ ViewSetArraySize
  \/ ViewSetObject
  \/ ViewResizeArray
  \/ ViewGetInteger
  \/ ViewGetUnsigned
  \/ ViewGetReal
  \/ ViewGetBoolean
  \/ ViewGetString
  \/ ViewGetBinary
  \/ ViewGetIntegralI64
  \/ ViewGetIntegralU64
  \/ ViewGetNumber
  \/ ViewGetElementIdx
  \/ ViewGetElementKey
  \/ ViewHasElement
  \/ ViewAppendElement
  \/ ViewInsertElement
  \/ ViewInsertElementAgain
  \/ ViewComputePath
  \/ ViewGetValueAtKey
  \/ ViewGetValueAtIdx
  \/ ViewGetValue
  \/ ViewInsertValueIf
  \/ ViewSetValue
  \/ ViewGetValueIf
  \/ ViewSetValueAtIdx
  \/ ViewSetValueAtKey
  \/ ViewResizeArrayHeld
  \/ ViewGetIntegerHeld
  \/ StepsSetValue
  \/ StepsAppend
  \/ StepsInsert
  \/ ViewEmptyAndSize

Spec == Init /\ [][Next]_vars

(***************************************************************************)
(* The round trip of the conversion protocol: a native value is written    *)
(* through the root view of a fresh json_value and read back.              *)
(***************************************************************************)
\* the values of the modelled integer types
Int64Vals == (0 - Pow2(Bits64 - 1))..(Pow2(Bits64 - 1) - 1)
Int32Vals == (0 - Pow2(Bits32 - 1))..(Pow2(Bits32 - 1) - 1)
UInt64Vals == 0..(Pow2(Bits64) - 1)
UInt32Vals == 0..(Pow2(Bits32) - 1)
\* doubles -1.5, 0, 0.5 and 2
DoubleVals == {0 - 3, 0, 1, 4}
StringVals == {<<>>, <<"x">>, <<"x", "/">>}

\* the sequences of at most n elements of a set
SeqsUpTo(S, n) == UNION {[1..m -> S] : m \in 0..n}

\* pairs <<T, value>>: a native type and a value of it
RoundTripInputs ==
  {<<Native.int64, x>> : x \in Int64Vals} \cup {<<Native.int32, x>> : x \in Int32Vals} \cup
  {<<Native.uint64, x>> : x \in UInt64Vals} \cup {<<Native.uint32, x>> : x \in UInt32Vals} \cup
  {<<Native.double, x>> : x \in DoubleVals} \cup {<<Native.bool, x>> : x \in BOOLEAN} \cup
  {<<Native.string, x>> : x \in StringVals} \cup
  {<<T_vector(Native.int32), x>> : x \in SeqsUpTo({0 - 1, 3}, MaxLen)} \cup
  {<<T_vector(Native.string), x>> : x \in SeqsUpTo({<<>>, <<"x">>}, MaxLen)} \cup
  {<<T_array(Native.uint32, 2), x>> : x \in [1..2 -> {0, 7}]} \cup
  {<<T_array(Native.bool, 0), <<>>>>} \cup
  {<<T_vector(T_vector(Native.int64)), x>> :
     x \in SeqsUpTo(SeqsUpTo({0 - 2}, MaxLen), MaxLen)} \cup
  {<<T_vector(T_array(Native.double, 2)), x>> : x \in SeqsUpTo([1..2 -> {1, 4}], 1)} \cup
  {<<T_array(T_vector(Native.uint64), 2), x>> : x \in [1..2 -> {<<>>, <<5>>}]}

ConvInit ==
  /\ doc = json_value_default
  /\ \E in \in RoundTripInputs :
       last = [NoLast EXCEPT !.op = "fresh", !.T = in[1], !.arg = in[2]]

\* set_value(get_root(js), value, error) on the fresh json_value
ConvSetValue ==
  /\ last.op = "fresh"
  /\ LET r == set_value(doc, get_root, last.T, last.arg, <<>>) IN
     /\ doc' = r.tree
     /\ last' = [last EXCEPT !.op = "set_value", !.js = get_root, !.ret = r.ret,
                             !.error = r.error]

\* get_value(get_root(js), value, error) into a value-initialised T
ConvGetValue ==
  /\ last.op = "set_value"
  /\ LET r == get_value(doc, get_root, last.T, DefaultNative(last.T), <<>>) IN
     /\ doc' = doc
     /\ last' = [last EXCEPT !.op = "get_value", !.ret0 = last.ret, !.ret = r.ret,
                             !.out0 = DefaultNative(last.T), !.out = r.value,
                             !.error = r.error, !.pre = doc]

\* get_value(get_root(js), value, error) into an integer type that need not
\* be the one that was written
ConvGetValueAs ==
  /\ last.op = "set_value"
  /\ last.T \in {Native.int64, Native.int32, Native.uint64, Native.uint32}
  /\ \E T \in {Native.int64, Native.int32, Native.uint64, Native.uint32} :
    LET r == get_value(doc, get_root, T, 0, <<>>) IN
    /\ doc' = doc
    /\ last' = [last EXCEPT !.op = "get_value as", !.t = T.k, !.ret0 = last.ret,
                            !.ret = r.ret, !.out0 = 0, !.out = r.value,
                            !.error = r.error, !.pre = doc]

ConvNext ==
  \/ ConvSetValue
  \/ ConvGetValue
  \/ ConvGetValueAs

SpecConv == ConvInit /\ [][ConvNext]_vars

(***************************************************************************)
(* Copies on the free store. Here a json_value is held as the code holds   *)
(* it: [type, bits], `bits` being the 64 bits of the union, that is the    *)
(* number of an inline kind or the address of the string, json_array,      *)
(* json_object or json_binary that `new` returned. `mem` is the free       *)
(* store, a sequence of such pointees; the address of one is its position, *)
(* and `new` appends. `doc` is [mem, a, b]: the store and two json_values. *)
(***************************************************************************)
\* the copy constructor copying _type and the union member by member
json_value_copy_shallow(mem, other) == [mem |-> mem, self |-> other]

\* the copy constructor making a new vector of the same elements
json_value_copy_elements_shared(mem, other) ==
  IF other.type \in InlineTypes
    THEN [mem |-> mem, self |-> [type |-> other.type, bits |-> other.bits]]
    ELSE [mem |-> Append(mem, mem[other.bits]),
          self |-> [type |-> other.type, bits |-> Len(mem) + 1]]

\* json_value::json_value(const json_value& other) on the free store:
\* [mem, self]. new json_array{*other._array} and new json_object{...} make
\* the vector and copy-construct its elements one after the other
RECURSIVE json_value_copy_in(_, _)
json_value_copy_in(mem, other) ==
  IF other.type \in InlineTypes
    THEN [mem |-> mem, self |-> [type |-> other.type, bits |-> other.bits]]
  ELSE IF other.type \in {"string", "binary"}
    THEN [mem |-> Append(mem, mem[other.bits]),
          self |-> [type |-> other.type, bits |-> Len(mem) + 1]]
  ELSE LET at == Len(mem) + 1
           RECURSIVE elements(_, _)
           elements(m, i) ==
             IF i > Len(mem[other.bits]) THEN m
             ELSE LET e == mem[other.bits][i]
                      c == json_value_copy_in(
                             m, IF other.type = "object" THEN e.second ELSE e) IN
                  elements([c.mem EXCEPT
                              ![at] = Append(@, IF other.type = "object"
                                                  THEN Pair(e.first, c.self)
                                                  ELSE c.self)],
                           i + 1) IN
       [mem |-> elements(Append(mem, <<>>), 1),
        self |-> [type |-> other.type, bits |-> at]]

\* the json_value reached from h by the element positions of a path
RECURSIVE HeapAt(_, _, _)
HeapAt(mem, h, path) ==
  IF path = <<>> THEN h
  ELSE LET e == mem[h.bits][Head(path) + 1] IN
       HeapAt(mem, IF h.type = "object" THEN e.second ELSE e, Tail(path))

\* the tree a json_value of the free store stands for
RECURSIVE HeapValue(_, _)
HeapValue(mem, h) ==
  IF h.type \in InlineTypes THEN Node(h.type, "inline", h.bits)
  ELSE IF h.type \in {"string", "binary"} THEN Node(h.type, h.type, mem[h.bits])
  ELSE IF h.type = "array"
    THEN Node("array", "array",
              [i \in DOMAIN mem[h.bits] |-> HeapValue(mem, mem[h.bits][i])])
  ELSE Node("object", "object",
            [i \in DOMAIN mem[h.bits] |->
               Pair(mem[h.bits][i].first, HeapValue(mem, mem[h.bits][i].second))])

\* the json_values a and b a program starts from: a is [1, ["x"]],
\* {"a": [1], "b": "x"}, "x" or 2; b is null or {"b": 1}
HeapInputs ==
  LET int(x) == [type |-> "integer", bits |-> x]
      ptr(t, x) == [type |-> t, bits |-> x]
      as == {[mem |-> <<<<int(1), ptr("array", 2)>>, <<ptr("string", 3)>>, <<"x">>>>,
              a |-> ptr("array", 1)],
             [mem |-> <<<<Pair(<<"a">>, ptr("array", 2)), Pair(<<"b">>, ptr("string", 3))>>,
                        <<int(1)>>, <<"x">>>>,
              a |-> ptr("object", 1)],
             [mem |-> <<<<"x">>>>, a |-> ptr("string", 1)],
             [mem |-> <<>>, a |-> int(2)]} IN
  {[mem |-> x.mem, a |-> x.a, b |-> [type |-> "null", bits |-> 0]] : x \in as} \cup
  {[mem |-> Append(x.mem, <<Pair(<<"b">>, int(1))>>), a |-> x.a,
    b |-> ptr("object", Len(x.mem) + 1)] : x \in as}

CopyInit ==
  /\ doc \in HeapInputs
  /\ last = [NoLast EXCEPT !.op = "fresh"]

\* json_value b{a}
CopyConstruct ==
  /\ last.op = "fresh"
  /\ doc.b.type = "null"
  /\ LET c == json_value_copy_in(doc.mem, doc.a) IN
     /\ doc' = [doc EXCEPT !.mem = c.mem, !.b = c.self]
     /\ last' = [NoLast EXCEPT !.op = "copy construct", !.t = "b", !.key = "a",
                               !.pre = doc]

\* to = from for to and from among a and b, a = a and b = b included:
\* auto js = json_value{value}; swap(js); and js, holding what `to` had, ends
CopyAssign ==
  /\ last.op = "fresh"
  /\ \E to \in {"a", "b"}, from \in {"a", "b"} :
       LET c == json_value_copy_in(doc.mem, doc[from]) IN
       /\ doc' = [doc EXCEPT !.mem = c.mem, ![to] = c.self]
       /\ last' = [NoLast EXCEPT !.op = "copy assign", !.t = to, !.key = from,
                                 !.pre = doc]

\* after the copy, x = value for the json_value x reached from a or from b
\* by a path of element positions: operator=(int32_t) through the reference
CopyMutate ==
  /\ last.op \in {"copy construct", "copy assign"}
  /\ \E of \in {"a", "b"}, value \in IntArgs :
     \E path \in PathsOf(HeapValue(doc.mem, doc[of])) :
       LET new == [type |-> "integer", bits |-> value]
           up == HeapAt(doc.mem, doc[of], SubSeq(path, 1, Len(path) - 1))
           i == path[Len(path)] + 1 IN
       /\ doc' = IF path = <<>> THEN [doc EXCEPT ![of] = new]
                 ELSE [doc EXCEPT
                         !.mem[up.bits][i] =
                           IF up.type = "object" THEN Pair(@.first, new) ELSE new]
       /\ last' = [NoLast EXCEPT !.op = "mutate", !.t = of, !.ref = path,
                                 !.arg = value, !.pre = doc, !.pre0 = last.pre,
                                 !.key = last.key, !.other = last.t]

CopyNext ==
  \/ CopyConstruct
  \/ CopyAssign
  \/ CopyMutate

SpecCopy == CopyInit /\ [][CopyNext]_vars

(***************************************************************************)
(* Ownership on the free store. `doc` is [mem, released, twice, a, b,      *)
(* ended]: the free store, the addresses `delete` was called on, whether   *)
(* it was called on one of them again, two json_values, and which of them  *)
(* is not constructed yet or was destroyed.                                *)
(***************************************************************************)
\* the most pointees the free store ever held
MaxCells == 4

NullHandle == [type |-> "null", bits |-> 0]

\* json_value::~json_value() on the free store d: delete _string, _array,
\* _object or _binary; deleting a vector destroys its elements first
RECURSIVE json_value_destroy_in(_, _)
json_value_destroy_in(d, h) ==
  IF h.type \in InlineTypes THEN d
  ELSE LET RECURSIVE elements(_, _)
           elements(e, i) ==
             IF i > Len(d.mem[h.bits]) THEN e
             ELSE elements(
                    json_value_destroy_in(
                      e, IF h.type = "object" THEN d.mem[h.bits][i].second
                         ELSE d.mem[h.bits][i]),
                    i + 1)
           inner == IF h.type \in {"array", "object"} THEN elements(d, 1) ELSE d IN
       [inner EXCEPT !.released = @ \cup {h.bits},
                     !.twice = @ \/ h.bits \in inner.released]

\* json_value{value} for an int64_t, a string and a json_array of one string:
\* [mem, self]
OwnedTemps(mem) ==
  {[mem |-> mem, self |-> [type |-> "integer", bits |-> 1]],
   [mem |-> Append(mem, <<"x">>), self |-> [type |-> "string", bits |-> Len(mem) + 1]],
   [mem |-> mem \o <<<<[type |-> "string", bits |-> Len(mem) + 2]>>, <<"x">>>>,
    self |-> [type |-> "array", bits |-> Len(mem) + 1]]}

OwnInit ==
  /\ doc = [mem |-> <<>>, released |-> {}, twice |-> FALSE, a |-> NullHandle,
            b |-> NullHandle, ended |-> {"b"}]
  /\ last = [NoLast EXCEPT !.op = "json_value()", !.t = "a"]

OwnDone(op, to, from) == [NoLast EXCEPT !.op = op, !.t = to, !.key = from, !.pre = doc]

\* x = value: auto js = json_value{value}; swap(js); and js is destroyed
OwnAssign ==
  \E x \in {"a", "b"} \ doc.ended : \E js \in OwnedTemps(doc.mem) :
    /\ Len(js.mem) <= MaxCells
    /\ doc' = json_value_destroy_in([doc EXCEPT !.mem = js.mem, ![x] = js.self],
                                    doc[x])
    /\ last' = OwnDone("assign", x, x)

\* json_value x{y}
OwnCopyConstruct ==
  \E x \in doc.ended, y \in {"a", "b"} \ doc.ended :
    LET c == json_value_copy_in(doc.mem, doc[y]) IN
    /\ Len(c.mem) <= MaxCells
    /\ doc' = [doc EXCEPT !.mem = c.mem, ![x] = c.self, !.ended = @ \ {x}]
    /\ last' = OwnDone("copy construct", x, y)

\* json_value x{std::move(y)}: x starts as null and swaps with y
OwnMoveConstruct ==
  \E x \in doc.ended, y \in {"a", "b"} \ doc.ended :
    /\ doc' = [doc EXCEPT ![x] = doc[y], ![y] = NullHandle, !.ended = @ \ {x}]
    /\ last' = OwnDone("move construct", x, y)

\* x = y: auto js = json_value{value}; swap(js); and js is destroyed
OwnCopyAssign ==
  \E x \in {"a", "b"} \ doc.ended, y \in {"a", "b"} \ doc.ended :
    LET c == json_value_copy_in(doc.mem, doc[y]) IN
    /\ Len(c.mem) <= MaxCells
    /\ doc' = json_value_destroy_in([doc EXCEPT !.mem = c.mem, ![x] = c.self],
                                    doc[x])
    /\ last' = OwnDone("copy assign", x, y)

\* x = std::move(y): swap(value)
OwnMoveAssign ==
  \E x \in {"a", "b"} \ doc.ended, y \in {"a", "b"} \ doc.ended :
    /\ doc' = [doc EXCEPT ![x] = doc[y], ![y] = doc[x]]
    /\ last' = OwnDone("move assign", x, y)

\* x.swap(y), x.swap(x) included
OwnSwap ==
  \E x \in {"a", "b"} \ doc.ended, y \in {"a", "b"} \ doc.ended :
    /\ doc' = [doc EXCEPT ![x] = doc[y], ![y] = doc[x]]
    /\ last' = OwnDone("swap", x, y)

\* x.set_type(t): the payload is deleted and a new empty one made
OwnSetType ==
  \E x \in {"a", "b"} \ doc.ended, t \in json_type :
    LET d == json_value_destroy_in(doc, doc[x]) IN
    /\ Len(d.mem) < MaxCells \/ t \in InlineTypes
    /\ doc' = IF t \in InlineTypes THEN [d EXCEPT ![x] = [type |-> t, bits |-> 0]]
              ELSE [d EXCEPT !.mem = Append(@, <<>>),
                             ![x] = [type |-> t, bits |-> Len(d.mem) + 1]]
    /\ last' = OwnDone("set_type", x, x)

\* the end of the lifetime of x
OwnDestroy ==
  \E x \in {"a", "b"} \ doc.ended :
    /\ doc' = [json_value_destroy_in(doc, doc[x]) EXCEPT
                 ![x] = NullHandle, !.ended = @ \cup {x}]
    /\ last' = OwnDone("destroy", x, x)

OwnNext ==
  \/ OwnAssign
  \/ OwnCopyConstruct
  \/ OwnMoveConstruct
  \/ OwnCopyAssign
  \/ OwnMoveAssign
  \/ OwnSwap
  \/ OwnSetType
  \/ OwnDestroy

SpecOwn == OwnInit /\ [][OwnNext]_vars

(***************************************************************************)
(* Properties                                                              *)
(***************************************************************************)
\* the zero or empty json_value of a kind: 0, false, "", [], {} or no bytes
ZeroOf(k) ==
  [type |-> k,
   rep |-> IF k \in {"string", "array", "object", "binary"} THEN k ELSE "inline",
   v |-> IF k \in {"string", "array", "object", "binary"} THEN <<>> ELSE 0]

\* the node a call was made on, before and after the call
TargetBefore ==
  NodeAt(last.pre, IF last.js.value.null THEN last.ref ELSE last.js.value.path)
TargetAfter ==
  NodeAt(doc, IF last.js.value.null THEN last.ref ELSE last.js.value.path)

\* C1: after set_type(k), on a json_value or through a valid view, whatever
\* the node was before, the node has kind k: type() is k, is_<k> holds and no
\* other is_<kind> does, and the payload is the zero or empty payload of k,
\* with no children left. The call does not fail.
C1_SetTypeInstallsDefault ==
  /\ last.op = "json_value::set_type" =>
       /\ ~last.thrown
       /\ json_value_type(TargetAfter) = last.t
       /\ \A k \in json_type : json_value_is(TargetAfter, k) <=> (k = last.t)
       /\ TargetAfter = ZeroOf(last.t)
  /\ (last.op = "set_type" /\ is_valid(last.js)) =>
       /\ last.ret
       /\ get_type(doc, last.js) = last.t
       /\ \A k \in json_type : is_kind(doc, last.js, k) <=> (k = last.t)
       /\ TargetAfter = ZeroOf(last.t)

\* set_type through a view of an array with elements, to the kind array again
C1_Witness ==
  /\ last.op = "set_type"
  /\ is_valid(last.js)
  /\ TargetBefore.type = "array"
  /\ Len(TargetBefore.v) > 0
  /\ last.t = "array"
  /\ TargetAfter.v = <<>>

\* the payload of n has the shape its discriminant asks for, and so has every
\* node below it
IsText(x) == \A i \in DOMAIN x : x[i] \in STRING
IsBytes(x) == \A i \in DOMAIN x : x[i] \in 0..255
RECURSIVE ShapeMatches(_)
ShapeMatches(n) ==
  /\ n.type \in json_type
  /\ n.rep \in {"inline", "string", "array", "object", "binary"}
  /\ CASE n.type \in {"null", "integer", "unsigned", "real", "boolean"} ->
            n.rep = "inline" /\ n.v \in Int
       [] n.type = "string" -> n.rep = "string" /\ IsText(n.v)
       [] n.type = "binary" -> n.rep = "binary" /\ IsBytes(n.v)
       [] n.type = "array" ->
            n.rep = "array" /\ \A i \in DOMAIN n.v : ShapeMatches(n.v[i])
       [] n.type = "object" ->
            /\ n.rep = "object"
            /\ \A i \in DOMAIN n.v :
                 /\ DOMAIN n.v[i] = {"first", "second"}
                 /\ IsText(n.v[i].first)
                 /\ ShapeMatches(n.v[i].second)

\* C2: in every reachable state every node of every tree (the document and
\* the second json_value of the last copy, move or swap) has one active
\* payload, and its shape is the one of the node's discriminant.
C2_DiscriminantMatchesPayload == ShapeMatches(doc) /\ ShapeMatches(last.other)

\* a swap has exchanged a string with a number inside a container
C2_Witness ==
  /\ last.op = "swap"
  /\ last.ref # <<>>
  /\ last.other.type = "integer"
  /\ TargetAfter.type = "string"
  /\ TargetAfter.v = <<"x">>

\* C3: for every supported native type T and value v of T, set_value through
\* the root view of a fresh json_value and then get_value through the same
\* view both return true, and the value read is v.
C3_RoundTrip ==
  last.op = "get_value" => (last.ret0 /\ last.ret /\ last.out = last.arg)

\* a vector of two vectors of two integers has been written and read back
C3_Witness ==
  /\ last.op = "get_value"
  /\ last.T.k = "vector"
  /\ last.T.elem.k = "vector"
  /\ Len(last.arg) = 2
  /\ Len(last.arg[1]) = 2
  /\ last.out = last.arg

\* the kinds a getter accepts
Accepts(op) ==
  CASE op = "get_integer" -> {"integer"}
    [] op = "get_unsigned" -> {"unsigned"}
    [] op = "get_real" -> {"real"}
    [] op = "get_boolean" -> {"boolean"}
    [] op = "get_string" -> {"string"}
    [] op = "get_binary" -> {"binary"}
    [] op \in {"get_integral_i64", "get_integral_u64"} -> {"integer", "unsigned"}
    [] op = "get_number" -> {"integer", "unsigned", "real"}

\* what a getter reads from a node of a kind it accepts; a double is held as
\* twice its value
Reads(op, n) ==
  CASE op = "get_boolean" -> (n.v = 1)
    [] op = "get_number" /\ n.type # "real" -> n.v + n.v
    [] OTHER -> n.v

\* C4: a getter returns true exactly when its view is valid and the node has
\* a kind the getter accepts (its own kind; integer and unsigned for
\* get_integral; integer, unsigned and real for get_number), and then the
\* out-parameter holds the payload, converted to a double by get_number. In
\* every other case it returns false and leaves the out-parameter as it was.
C4_GetterAcceptance ==
  last.op \in {"get_integer", "get_unsigned", "get_real", "get_boolean", "get_string",
               "get_binary", "get_integral_i64", "get_integral_u64", "get_number"} =>
    LET ok == is_valid(last.js) /\ TargetBefore.type \in Accepts(last.op) IN
    /\ last.ret = ok
    /\ ok => last.out = Reads(last.op, TargetBefore)
    /\ ~ok => last.out = last.out0
    /\ doc = last.pre

\* get_number has read the unsigned 5 as the double 5.0
C4_Witness ==
  /\ last.op = "get_number"
  /\ is_valid(last.js)
  /\ TargetBefore.type = "unsigned"
  /\ TargetBefore.v = 5
  /\ last.ret
  /\ last.out = 10

\* C5: get_element(js, idx) is a valid view exactly when js is a valid view
\* of an array and idx < array_size(js), and then its target is element idx;
\* get_element(js, key) is a valid view exactly when js is a valid view of an
\* object with a pair of that key, and then its target is the value of a pair
\* with that key. Otherwise the view is invalid. The tree is unchanged.
C5_GetElement ==
  /\ last.op = "get_element(idx)" =>
       LET ok == /\ is_valid(last.js)
                 /\ TargetBefore.type = "array"
                 /\ last.idx < Len(TargetBefore.v) IN
       /\ is_valid(last.view) = ok
       /\ ok => /\ last.view.value.path = last.js.value.path \o <<last.idx>>
                /\ last.view.root = last.js.root
       /\ doc = last.pre
  /\ last.op = "get_element(key)" =>
       LET ok == /\ is_valid(last.js)
                 /\ TargetBefore.type = "object"
                 /\ \E i \in DOMAIN TargetBefore.v : TargetBefore.v[i].first = last.key IN
       /\ is_valid(last.view) = ok
       /\ ok => /\ Len(last.view.value.path) = Len(last.js.value.path) + 1
                /\ SubSeq(last.view.value.path, 1, Len(last.js.value.path)) =
                     last.js.value.path
                /\ TargetBefore.v[last.view.value.path[Len(last.view.value.path)] + 1].first
                     = last.key
                /\ last.view.root = last.js.root
       /\ doc = last.pre

\* the index one past the end of an array of two elements gives an invalid view
C5_Witness ==
  /\ last.op = "get_element(idx)"
  /\ is_valid(last.js)
  /\ TargetBefore.type = "array"
  /\ Len(TargetBefore.v) = 2
  /\ last.idx = 2
  /\ ~is_valid(last.view)

\* the locator of the node at `path` of a tree: from the root to the node,
\* a "/" followed by the array index or the object key of each step; "/" for
\* the root itself
RECURSIVE Locator(_, _)
Locator(tree, path) ==
  IF path = <<>> THEN <<>>
  ELSE (<<"/">> \o (IF tree.type = "object" THEN tree.v[Head(path) + 1].first
                    ELSE to_string(Head(path))))
       \o Locator(Child(tree, Head(path)), Tail(path))

PathOf(tree, js) ==
  IF js.value.path = <<>> THEN <<"/">> ELSE Locator(tree, js.value.path)

\* the string `part` occurs in the string `whole`
Contains(whole, part) ==
  \E i \in 0..(Len(whole) - Len(part)) : SubSeq(whole, i + 1, i + Len(part)) = part

\* C7: for a valid view whose target is reachable from its root, compute_path
\* is the slash-delimited locator made of the array index or object key of
\* each step from the root to the target; the root view resolves to "/".
C7_ComputePathIsLocator ==
  (last.op = "compute_path" /\ is_valid(last.js)) => last.out = PathOf(doc, last.js)

\* C6: get_value_at with a key the object does not hold, or an index past
\* the end of the array, returns false, sets error to a message that contains
\* the path of the view, and leaves the out-parameter as it was.
C6_MissingElementErrorHasPath ==
  /\ (/\ last.op = "get_value_at(key)"
      /\ is_valid(last.js)
      /\ TargetBefore.type = "object"
      /\ \A i \in DOMAIN TargetBefore.v : TargetBefore.v[i].first # last.key) =>
       /\ ~last.ret
       /\ Contains(last.error, PathOf(doc, last.js))
       /\ last.out = last.out0
  /\ (/\ last.op = "get_value_at(idx)"
      /\ is_valid(last.js)
      /\ TargetBefore.type = "array"
      /\ ~(last.idx < Len(TargetBefore.v))) =>
       /\ ~last.ret
       /\ Contains(last.error, PathOf(doc, last.js))
       /\ last.out = last.out0

\* C8: for a valid view of an object and any key, insert_element called
\* twice in a row with that key returns views of the same node both times,
\* and the second call leaves the tree (size, keys, order, values) as the
\* first call left it: no second pair with the key is made.
C8_InsertElementIdempotent ==
  (/\ last.op = "insert_element again"
   /\ is_valid(last.js)
   /\ TargetBefore.type = "object") =>
    /\ is_valid(last.view0)
    /\ last.view = last.view0
    /\ doc = last.pre

\* the first of the two calls added the key as the second pair of the object
C8_Witness ==
  /\ last.op = "insert_element again"
  /\ is_valid(last.js)
  /\ NodeAt(last.pre0, last.js.value.path).type = "object"
  /\ Len(NodeAt(last.pre0, last.js.value.path).v) = 1
  /\ Len(TargetAfter.v) = 2
  /\ last.view.value.path = last.js.value.path \o <<1>>

\* the positions of the pairs of an object payload that have the key
PairsOf(pairs, key) == {i \in DOMAIN pairs : pairs[i].first = key}

\* the lowest of them
FirstOf(pairs, key) ==
  CHOOSE i \in PairsOf(pairs, key) : \A j \in PairsOf(pairs, key) : i <= j

\* the json_value a json_value call was made on, before the first of two calls
TargetBeforeFirst == NodeAt(last.pre0, last.ref)

\* C9: on an object with no pair of key k, obj[k] = 1 followed by obj[k] = 2
\* leaves exactly one pair with key k, placed after all the earlier pairs,
\* which are as they were; find(k) and get_element(obj, k) then give the
\* value 2.
C9_IndexIsFindOrInsertAtEnd ==
  (/\ last.op = "operator[](key)= again"
   /\ TargetBeforeFirst.type = "object"
   /\ PairsOf(TargetBeforeFirst.v, last.key) = {}) =>
    LET n == TargetAfter
        e == get_element_key(doc, View(PtrTo(last.ref), PtrTo(<<>>)), last.key) IN
    /\ ~last.thrown
    /\ n.type = "object"
    /\ PairsOf(n.v, last.key) = {Len(TargetBeforeFirst.v) + 1}
    /\ Len(n.v) = Len(TargetBeforeFirst.v) + 1
    /\ SubSeq(n.v, 1, Len(TargetBeforeFirst.v)) = TargetBeforeFirst.v
    /\ ~find(n, last.key).thrown
    /\ n.v[find(n, last.key).pos].second = [type |-> "integer", rep |-> "inline", v |-> last.arg]
    /\ is_valid(e)
    /\ Deref(doc, e) = [type |-> "integer", rep |-> "inline", v |-> last.arg]

\* obj["b"] = 1; obj["b"] = 2 on an object that held one pair, of key "a"
C9_Witness ==
  /\ last.op = "operator[](key)= again"
  /\ TargetBeforeFirst.type = "object"
  /\ Len(TargetBeforeFirst.v) = 1
  /\ TargetBeforeFirst.v[1].first = <<"a">>
  /\ last.key = <<"b">>
  /\ last.arg = 2
  /\ Len(TargetAfter.v) = 2
  /\ TargetAfter.v[2].second.v = 2

\* C10: on an object that holds a key, once or several times, find, at,
\* operator[], contains, get_element, has_element and insert_element all
\* resolve to the pair of that key at the lowest position, and none of them
\* removes, merges or reorders pairs: the lookups leave the tree as it was,
\* and obj[k] = x changes the value of that one pair only.
C10_FirstMatchLookup ==
  /\ (/\ last.op \in {"find", "at(key)", "operator[](key)", "operator[](key)=",
                      "contains"}
      /\ TargetBefore.type = "object"
      /\ PairsOf(TargetBefore.v, last.key) # {}) =>
       LET first == FirstOf(TargetBefore.v, last.key) IN
       /\ ~last.thrown
       /\ last.op # "contains" => last.pos = first
       /\ last.op = "contains" => last.ret
       /\ last.op # "operator[](key)=" => doc = last.pre
       /\ last.op = "operator[](key)=" =>
            doc = ReplaceAt(last.pre, last.ref \o <<first - 1>>,
                            [type |-> "integer", rep |-> "inline", v |-> last.arg])
  /\ (/\ last.op \in {"get_element(key)", "has_element", "insert_element"}
      /\ is_valid(last.js)
      /\ TargetBefore.type = "object"
      /\ PairsOf(TargetBefore.v, last.key) # {}) =>
       LET first == FirstOf(TargetBefore.v, last.key) IN
       /\ last.op = "has_element" => last.ret
       /\ last.op # "has_element" =>
            last.view = [value |-> [null |-> FALSE,
                                    path |-> last.js.value.path \o <<first - 1>>],
                         root |-> last.js.root]
       /\ doc = last.pre

\* a lookup in an object whose two pairs have the same key and other values
C10_Witness ==
  /\ last.op = "find"
  /\ TargetBefore.type = "object"
  /\ Len(TargetBefore.v) = 2
  /\ TargetBefore.v[1].first = last.key
  /\ TargetBefore.v[2].first = last.key
  /\ TargetBefore.v[1].second # TargetBefore.v[2].second
  /\ last.pos = 1

\* the json_value set_value makes of a native integer or string
NodeOf(T, value) ==
  IF T.k = "string" THEN [type |-> "string", rep |-> "string", v |-> value]
  ELSE [type |-> "integer", rep |-> "inline", v |-> value]

\* C11: insert_value_if with value == default_ returns true and leaves the
\* tree and the error string as they were. With value # default_ on a valid
\* view of an object it returns true, and afterwards the object holds the
\* pair (key, value): appended after the earlier pairs, which are as they
\* were, when the key was absent; as the value of the first pair of the key,
\* every other pair being as it was, when the key was present. Nothing
\* outside the object changes.
C11_InsertValueIfOmitsDefault ==
  last.op = "insert_value_if" =>
    /\ last.arg = last.default_ =>
         /\ last.ret
         /\ doc = last.pre
         /\ last.error = last.error0
    /\ (/\ last.arg # last.default_
        /\ is_valid(last.js)
        /\ TargetBefore.type = "object") =>
         LET old == TargetBefore.v
             new == NodeOf(last.T, last.arg) IN
         /\ last.ret
         /\ last.error = last.error0
         /\ TargetAfter.type = "object"
         /\ IF PairsOf(old, last.key) = {}
              THEN TargetAfter.v = Append(old, [first |-> last.key, second |-> new])
              ELSE TargetAfter.v =
                     [old EXCEPT ![FirstOf(old, last.key)] =
                        [first |-> last.key, second |-> new]]
         /\ doc = ReplaceAt(last.pre, last.js.value.path, TargetAfter)

\* value 1 with default 0 has been appended to an object that held one pair
\* of another key
C11_Witness ==
  /\ last.op = "insert_value_if"
  /\ is_valid(last.js)
  /\ TargetBefore.type = "object"
  /\ Len(TargetBefore.v) = 1
  /\ TargetBefore.v[1].first # last.key
  /\ last.arg = 1
  /\ last.default_ = 0
  /\ last.ret
  /\ Len(TargetAfter.v) = 2
  /\ TargetAfter.v[2] = [first |-> last.key,
                         second |-> [type |-> "integer", rep |-> "inline", v |-> 1]]

\* the string `whole` begins with the string `part`
StartsWith(whole, part) ==
  Len(part) <= Len(whole) /\ SubSeq(whole, 1, Len(part)) = part

\* C12: get_value into array<T, N> through a valid view of an array whose
\* size is not N returns false, sets error to a message that begins with
\* "array size mismatched", and leaves the destination as it was; through a
\* view that is not a view of an array it returns false with a message that
\* begins with "array expected", the destination again as it was.
C12_FixedSizeMismatch ==
  (last.op = "get_value(js)" /\ last.T.k = "array") =>
    LET isarray == is_valid(last.js) /\ TargetBefore.type = "array" IN
    /\ (isarray /\ Len(TargetBefore.v) # last.T.n) =>
         /\ ~last.ret
         /\ StartsWith(last.error,
              <<"a", "r", "r", "a", "y", " ", "s", "i", "z", "e", " ",
                "m", "i", "s", "m", "a", "t", "c", "h", "e", "d">>)
         /\ last.out = last.out0
    /\ ~isarray =>
         /\ ~last.ret
         /\ StartsWith(last.error,
              <<"a", "r", "r", "a", "y", " ", "e", "x", "p", "e", "c", "t", "e", "d">>)
         /\ last.out = last.out0
    /\ doc = last.pre

\* an array of one element has been refused by array<int64_t, 2>, and an
\* array of two elements by array<int64_t, 1>
C12_Witness ==
  /\ last.op = "get_value(js)"
  /\ last.T.k = "array"
  /\ is_valid(last.js)
  /\ TargetBefore.type = "array"
  /\ \/ Len(TargetBefore.v) = 1 /\ last.T.n = 2
     \/ Len(TargetBefore.v) = 2 /\ last.T.n = 1
  /\ ~last.ret
  /\ last.out = last.out0

\* C14 as amended: on an invalid view get_type returns null and every
\* is_<kind> query answers false: is_null, is_integer, is_unsigned, is_real,
\* is_boolean, is_string, is_array, is_object, is_binary, is_integral and
\* is_number. The tree is as it was.
C14_InvalidViewQueries ==
  /\ (last.op = "get_type" /\ ~is_valid(last.js)) =>
       (last.t = "null" /\ doc = last.pre)
  /\ (last.op = "is_kind" /\ ~is_valid(last.js)) =>
       (~last.ret /\ doc = last.pre)

\* is_null has been asked of an invalid view and has answered false
C14_Witness ==
  /\ last.op = "is_kind"
  /\ ~is_valid(last.js)
  /\ last.t = "null"
  /\ ~last.ret

\* C14 as stated: on an invalid view get_type returns null, is_null answers
\* true and every other is_<kind> query, is_integral and is_number included,
\* answers false.
C14_InvalidViewIsNull ==
  /\ (last.op = "get_type" /\ ~is_valid(last.js)) => last.t = "null"
  /\ (last.op = "is_kind" /\ ~is_valid(last.js)) => (last.ret <=> (last.t = "null"))

\* the operations that take a view
SetterOps ==
  {"set_type", "set_null", "set_integer", "set_unsigned", "set_real", "set_boolean",
   "set_string", "set_binary", "set_array", "set_array(size)", "set_object"}
GetterOps ==
  {"get_integer", "get_unsigned", "get_real", "get_boolean", "get_string",
   "get_binary", "get_integral_i64", "get_integral_u64", "get_number"}
ElementOps ==
  {"get_element(idx)", "get_element(key)", "append_element", "insert_element",
   "insert_element again"}
ReadOps == {"get_value(js)", "get_value_at(key)", "get_value_at(idx)"}
ViewOps ==
  SetterOps \cup GetterOps \cup ElementOps \cup ReadOps \cup
  {"get_type", "is_kind", "resize_array", "has_element", "compute_path",
   "insert_value_if"}

SetterResult ==
  CASE last.op \in {"set_type", "set_null", "set_array", "set_object"} -> ZeroOf(last.t)
    [] last.op = "set_boolean" ->
         [type |-> "boolean", rep |-> "inline", v |-> IF last.arg THEN 1 ELSE 0]
    [] last.op \in {"set_integer", "set_unsigned", "set_real"} ->
         [type |-> last.t, rep |-> "inline", v |-> last.arg]
    [] last.op \in {"set_string", "set_binary"} ->
         [type |-> last.t, rep |-> last.t, v |-> last.arg]
    [] last.op = "set_array(size)" ->
         [type |-> "array", rep |-> "array",
          v |-> [i \in 1..last.idx |-> ZeroOf("null")]]

\* C15: on a valid view each setter (set_type, set_null, set_integer,
\* set_unsigned, set_real, set_boolean, set_string, set_array, set_object,
\* set_binary) returns true, its target becomes a node of the setter's kind
\* whose payload is the value given (the kind's empty payload for set_type,
\* set_null, set_array and set_object, size nulls for set_array(size)), and
\* the tree is otherwise as it was; on an invalid view each returns false
\* and the tree is as it was.
C15_ViewSetters ==
  last.op \in SetterOps =>
    /\ is_valid(last.js) =>
         /\ last.ret
         /\ TargetAfter = SetterResult
         /\ doc = ReplaceAt(last.pre, last.js.value.path, SetterResult)
    /\ ~is_valid(last.js) =>
         /\ ~last.ret
         /\ doc = last.pre

\* set_string through a view of the second element of a container whose
\* first element is an integer, which is as it was
C15_Witness ==
  /\ last.op = "set_string"
  /\ last.ret
  /\ last.js.value.path = <<1>>
  /\ NodeAt(last.pre, <<0>>).type = "integer"
  /\ NodeAt(doc, <<0>>) = NodeAt(last.pre, <<0>>)
  /\ TargetBefore.type # "string"
  /\ TargetAfter = [type |-> "string", rep |-> "string", v |-> <<"x">>]

\* C16: a typed accessor of a json_value (get_integer, get_unsigned,
\* get_real, get_boolean, get_string, get_array, get_object, get_binary)
\* returns the payload when the discriminant is the accessor's kind and ends
\* in an exception otherwise; at(idx) and operator[](idx) end in an exception
\* unless the json_value is an array and idx < size, and at(key) unless it is
\* an object that holds the key; then no element is returned. In every case
\* the json_value is as it was.
C16_ValueAccessFailsHard ==
  /\ last.op = "json_value::get" =>
       /\ last.thrown <=> (TargetBefore.type # last.t)
       /\ ~last.thrown =>
            last.out = IF last.t = "boolean" THEN TargetBefore.v = 1 ELSE TargetBefore.v
       /\ doc = last.pre
  /\ last.op = "at(idx)" =>
       /\ last.thrown <=>
            ~(TargetBefore.type = "array" /\ last.idx < Len(TargetBefore.v))
       /\ last.pos = IF last.thrown THEN 0 ELSE last.idx + 1
       /\ doc = last.pre
  /\ last.op = "at(key)" =>
       /\ last.thrown <=>
            ~(TargetBefore.type = "object" /\ PairsOf(TargetBefore.v, last.key) # {})
       /\ last.thrown => last.pos = 0
       /\ ~last.thrown => TargetBefore.v[last.pos].first = last.key
       /\ doc = last.pre

\* at(2) on an array of two elements has ended in the exception
C16_Witness ==
  /\ last.op = "at(idx)"
  /\ TargetBefore.type = "array"
  /\ Len(TargetBefore.v) = 2
  /\ last.idx = 2
  /\ last.thrown
  /\ doc = last.pre

\* C17: size(), empty(), resize(n) and reserve(n) of a json_value complete
\* exactly when its kind is string, array, object or binary, and end in an
\* exception on every other kind, the json_value being as it was. When they
\* complete, size() is the number of characters, elements, pairs or bytes,
\* empty() is size() == 0, size() is n after resize(n), and reserve(n)
\* leaves the json_value as it was.
C17_SizedKindsUniform ==
  last.op \in {"size", "empty", "resize", "reserve"} =>
    /\ last.thrown <=> (TargetBefore.type \notin {"string", "array", "object", "binary"})
    /\ last.thrown => doc = last.pre
    /\ (~last.thrown /\ last.op = "size") =>
         (last.out = Len(TargetBefore.v) /\ doc = last.pre)
    /\ (~last.thrown /\ last.op = "empty") =>
         ((last.ret <=> (Len(TargetBefore.v) = 0)) /\ doc = last.pre)
    /\ (~last.thrown /\ last.op = "resize") =>
         (TargetAfter.type = TargetBefore.type /\ Len(TargetAfter.v) = last.idx)
    /\ (~last.thrown /\ last.op = "reserve") => doc = last.pre


\* the tree that the json_value `which` (a or b) of a free store stands for
Held(d, which) == HeapValue(d.mem, d[which])

Others(which) == IF which = "a" THEN "b" ELSE "a"

\* C18: a copy (copy construction b{a}, copy assignment to = from) holds the
\* value its source held, and leaves the source holding it; a = a leaves a
\* as it was; and an assignment made afterwards to any element of a or of b,
\* at any depth, changes that element of the one and nothing of the other
C18_CopyIsDeep ==
  /\ last.op \in {"copy construct", "copy assign"} =>
       /\ Held(doc, last.t) = Held(last.pre, last.key)
       /\ Held(doc, last.key) = Held(last.pre, last.key)
       /\ Held(doc, Others(last.t)) = Held(last.pre, Others(last.t))
  /\ last.op = "mutate" =>
       /\ Held(doc, Others(last.t)) = Held(last.pre, Others(last.t))
       /\ Held(doc, last.t) =
            ReplaceAt(Held(last.pre, last.t), last.ref,
                      Node("integer", "inline", last.arg))

\* b{a} copied a two-level array, a[1][0] was then assigned a number that
\* b[1][0] did not hold, and b is what it was
C18_Witness ==
  /\ last.op = "mutate"
  /\ last.t = "a"
  /\ last.other = "b"
  /\ Len(last.ref) = 2
  /\ Held(last.pre, "a") = Held(last.pre, "b")
  /\ Held(doc, "a") # Held(doc, "b")
  /\ Held(doc, "b") = Held(last.pre, "b")


\* what the container under the view of the last call held before and after
ElementsBefore == TargetBefore.v
ElementsAfter == TargetAfter.v

\* the call returned a view onto element `pos` (from 0) of the view it was
\* made on, which holds null, and changed the document nowhere else
GrewByOne(pos) ==
  /\ Len(ElementsAfter) = Len(ElementsBefore) + 1
  /\ pos = Len(ElementsBefore)
  /\ \A i \in DOMAIN ElementsBefore : ElementsAfter[i] = ElementsBefore[i]
  /\ is_valid(last.view)
  /\ last.view = View(ElementPtr(last.js, pos), last.js.root)
  /\ is_null(doc, last.view)
  /\ doc = ReplaceAt(last.pre, last.js.value.path,
                     [TargetBefore EXCEPT !.v = ElementsAfter])

\* C19: append_element on a valid array view of size n makes the size n+1,
\* returns a valid view onto the new last element, at index n and null, and
\* leaves elements 0..n-1 as they were; insert_element with a key the object
\* does not hold adds the one pair (key, null) at the last position and
\* leaves every other pair where and as it was; on a view of another kind, or
\* an invalid one, both return an invalid view and change nothing
C19_GrowthAppendOnly ==
  /\ last.op = "append_element" =>
       IF is_array(last.pre, last.js)
         THEN /\ GrewByOne(array_size(last.pre, last.js))
              /\ array_size(doc, last.js) = array_size(last.pre, last.js) + 1
         ELSE ~is_valid(last.view) /\ doc = last.pre
  /\ last.op = "insert_element" =>
       IF is_object(last.pre, last.js)
         THEN PairsOf(ElementsBefore, last.key) = {} =>
                /\ GrewByOne(object_size(last.pre, last.js))
                /\ ElementsAfter[Len(ElementsAfter)] =
                     Pair(last.key, json_value_default)
                /\ PairsOf(ElementsAfter, last.key) = {Len(ElementsAfter)}
         ELSE ~is_valid(last.view) /\ doc = last.pre

\* append_element grew an array that held an element other than null
C19_Witness ==
  /\ last.op = "append_element"
  /\ is_array(last.pre, last.js)
  /\ \E i \in DOMAIN ElementsBefore : ElementsBefore[i].type # "null"
  /\ Len(ElementsAfter) = Len(ElementsBefore) + 1


\* the kinds get_value converts to the native type T
AcceptedKinds(T) ==
  CASE T.k \in {"int64", "int32", "uint64", "uint32"} -> {"integer", "unsigned"}
    [] T.k = "double" -> {"integer", "unsigned", "real"}
    [] T.k = "bool" -> {"boolean"}
    [] T.k = "string" -> {"string"}
    [] T.k \in {"vector", "array"} -> {"array"}

\* "<expected-kind> expected" for the native type T
ExpectedMessage(T) ==
  CASE T.k \in {"int64", "int32", "uint64", "uint32"} -> Messages.integer_expected
    [] T.k = "double" -> Messages.number_expected
    [] T.k = "bool" -> Messages.boolean_expected
    [] T.k = "string" -> Messages.string_expected
    [] T.k \in {"vector", "array"} -> Messages.array_expected

\* the view is valid and its target is its root or below its root
Resolvable(js) ==
  /\ ~js.value.null
  /\ ~js.root.null
  /\ StartsWith(js.value.path, js.root.path)

\* the last call read a view whose own kind T does not accept
KindMismatch ==
  /\ last.op = "get_value(js)"
  /\ \/ ~is_valid(last.js)
     \/ get_type(last.pre, last.js) \notin AcceptedKinds(last.T)

\* C20: get_value(view, out, error) on a view whose kind the native type does
\* not accept fails and sets error to "<expected-kind> expected" followed by
\* " at " and compute_path(view) when the view is valid and its target is
\* found under its root, and by " in json" otherwise, which is exactly when
\* compute_path(view) is the empty string
C20_ErrorMessageFormat ==
  KindMismatch =>
    /\ ~last.ret
    /\ Resolvable(last.js) <=> compute_path(last.pre, last.js) # <<>>
    /\ last.error =
         ExpectedMessage(last.T) \o
           (IF Resolvable(last.js)
              THEN Messages.at \o compute_path(last.pre, last.js)
              ELSE Messages.in_json)

\* a bool was read from the first element of an array, which is not a boolean:
\* "boolean expected at /0"
C20_Witness ==
  /\ KindMismatch
  /\ last.T = Native.bool
  /\ last.js = View(PtrTo(<<0>>), PtrTo(<<>>))
  /\ last.error = Messages.boolean_expected \o Messages.at \o <<"/", "0">>


\* the positions (from 0) of the elements of the array under the view of the
\* last call that the element type of T does not accept
FailingElements ==
  {i \in 0..(Len(TargetBefore.v) - 1) :
     TargetBefore.v[i + 1].type \notin AcceptedKinds(last.T.elem)}

\* the last call read a sequence from an array (of the right size) that holds
\* an element the element type does not accept
ElementFailure ==
  /\ last.op = "get_value(js)"
  /\ last.T.k \in {"vector", "array"}
  /\ is_array(last.pre, last.js)
  /\ last.T.k = "array" => array_size(last.pre, last.js) = last.T.n
  /\ FailingElements # {}

\* C21: get_value into a vector<T> or array<T, N> from an array whose first
\* unconvertible element is element i returns false and leaves in error the
\* message of that element's failure, "<kind> expected" qualified with the
\* element's location
C21_FirstElementFailurePropagated ==
  ElementFailure =>
    LET i == CHOOSE x \in FailingElements : \A y \in FailingElements : x <= y IN
    /\ ~last.ret
    /\ last.error =
         format_error(last.pre, View(ElementPtr(last.js, i), last.js.root),
                      ExpectedMessage(last.T.elem))


\* the json_value that holds the conversion of a native integer, string or
\* sequence of them
RECURSIVE ValueOf(_, _)
ValueOf(T, value) ==
  IF T.k \in {"vector", "array"}
    THEN Node("array", "array", [i \in DOMAIN value |-> ValueOf(T.elem, value[i])])
    ELSE NodeOf(T, value)

\* C22: set_value of a vector<T> or array<T, N> through a valid view, when it
\* returns true, leaves the target an array of as many elements as the
\* sequence, element i holding the conversion of seq[i], whatever the target
\* was before (of any kind, a shorter or a longer array included), and leaves
\* every node outside the target as it was
C22_SetSequenceOverwrites ==
  (/\ last.op = "set_value(js)"
   /\ last.T.k \in {"vector", "array"}
   /\ is_valid(last.js)
   /\ last.ret) =>
    /\ is_array(doc, last.js)
    /\ array_size(doc, last.js) = Len(last.arg)
    /\ TargetAfter = ValueOf(last.T, last.arg)
    /\ doc = ReplaceAt(last.pre, last.js.value.path, ValueOf(last.T, last.arg))

\* a one-element sequence was written over an array of two elements
C22_Witness ==
  /\ last.op = "set_value(js)"
  /\ last.T.k = "vector"
  /\ last.ret
  /\ Len(last.arg) = 1
  /\ is_array(last.pre, last.js)
  /\ array_size(last.pre, last.js) = 2
  /\ TargetBefore # TargetAfter
  /\ TargetAfter = ValueOf(last.T, last.arg)


\* the view onto the value of the first pair of the key of the last call
KeyedElement ==
  View(ElementPtr(last.js, FirstOf(TargetBefore.v, last.key) - 1), last.js.root)

\* C23: get_value_if(view, key, out, error) on an object without the key
\* returns true and leaves out and error as they were; on an object with the
\* key it does what get_value does on the value of the key: true on a kind
\* that converts, false with "<kind> expected ..." on a kind that does not;
\* on anything but an object it returns false with "object expected ..."
C23_GetValueIf ==
  last.op = "get_value_if" =>
    IF ~is_object(last.pre, last.js)
      THEN /\ ~last.ret
           /\ StartsWith(last.error, Messages.object_expected)
    ELSE IF PairsOf(TargetBefore.v, last.key) = {}
      THEN /\ last.ret
           /\ last.out = last.out0
           /\ last.error = last.error0
    ELSE LET r == get_value(last.pre, KeyedElement, last.T, last.out0, last.error0) IN
         /\ last.ret = r.ret
         /\ last.out = r.value
         /\ last.error = r.error
         /\ get_type(last.pre, KeyedElement) \notin AcceptedKinds(last.T) =>
              /\ ~last.ret
              /\ StartsWith(last.error, ExpectedMessage(last.T))
         /\ (/\ get_type(last.pre, KeyedElement) \in AcceptedKinds(last.T)
             /\ last.T.k \notin {"vector", "array"}) =>
              last.ret

\* get_value_if returned true for a key that an object with another key does
\* not hold
C23_Witness ==
  /\ last.op = "get_value_if"
  /\ is_object(last.pre, last.js)
  /\ TargetBefore.v # <<>>
  /\ PairsOf(TargetBefore.v, last.key) = {}
  /\ last.ret
  /\ last.out = last.out0


\* the "<kind> expected" messages
ExpectedMessages ==
  {Messages.integer_expected, Messages.number_expected, Messages.boolean_expected,
   Messages.string_expected, Messages.array_expected, Messages.object_expected,
   Messages.unsigned_expected, Messages.real_expected}

\* the error of the last call begins with a "<kind> expected" message
KindExpected == \E m \in ExpectedMessages : StartsWith(last.error, m)

\* C24: when get_value_at or set_value_at, by key or by index, returns false,
\* the error begins with "missing key" or "index out of range" if the view
\* is an object without the key or an array without the index, and with
\* "<kind> expected" if the view is not an object or array, or the element is
\* there and of a kind that does not convert
C24_MissingAndWrongKindDistinct ==
  /\ (last.op \in {"get_value_at(key)", "set_value_at(key)"} /\ ~last.ret) =>
       IF is_object(last.pre, last.js) /\ PairsOf(TargetBefore.v, last.key) = {}
         THEN StartsWith(last.error, Messages.missing_key) /\ ~KindExpected
         ELSE KindExpected /\ ~StartsWith(last.error, Messages.missing_key)
  /\ (last.op \in {"get_value_at(idx)", "set_value_at(idx)"} /\ ~last.ret) =>
       IF is_array(last.pre, last.js) /\ last.idx >= array_size(last.pre, last.js)
         THEN StartsWith(last.error, Messages.index_out_of_range) /\ ~KindExpected
         ELSE KindExpected /\ ~StartsWith(last.error, Messages.index_out_of_range)


\* C25: a view onto an element of an array, used after resize_array was
\* called on that array, is treated as an error: the read through it does
\* not return true
C25_StaleViewIsAnError ==
  last.op = "get_integer, view held" => ~last.ret


\* the addresses of the payloads a json_value of the free store owns, its
\* elements' payloads included, one entry for every pointer to one
RECURSIVE Payloads(_, _)
Payloads(mem, h) ==
  IF h.type \in InlineTypes THEN <<>>
  ELSE IF h.type \in {"string", "binary"} THEN <<h.bits>>
  ELSE LET RECURSIVE below(_)
           below(i) ==
             IF i > Len(mem[h.bits]) THEN <<>>
             ELSE Payloads(mem, IF h.type = "object" THEN mem[h.bits][i].second
                                ELSE mem[h.bits][i]) \o below(i + 1) IN
       <<h.bits>> \o below(1)

\* the payloads of the json_values that are alive
OwnedPayloads ==
  (IF "a" \in doc.ended THEN <<>> ELSE Payloads(doc.mem, doc.a)) \o
  (IF "b" \in doc.ended THEN <<>> ELSE Payloads(doc.mem, doc.b))

\* C26: after any sequence of constructions, copies, moves, typed
\* assignments, swaps, set_type calls and destructions, no payload has two
\* owners, none was released twice and none that is owned was released; move
\* construction leaves the source null, and move assignment leaves the source
\* with what the target had
C26_ExclusiveOwnership ==
  /\ \A i, j \in DOMAIN OwnedPayloads : i # j => OwnedPayloads[i] # OwnedPayloads[j]
  /\ ~doc.twice
  /\ \A i \in DOMAIN OwnedPayloads : OwnedPayloads[i] \notin doc.released
  /\ last.op = "move construct" =>
       /\ doc[last.key] = NullHandle
       /\ doc[last.t] = last.pre[last.key]
  /\ last.op = "move assign" =>
       /\ doc[last.key] = last.pre[last.t]
       /\ doc[last.t] = last.pre[last.key]

\* a = std::move(b) with a and b owning different payloads, one of them an
\* array that owns a string, after a payload had been released
C26_Witness ==
  /\ last.op = "move assign"
  /\ last.t # last.key
  /\ doc.a.type = "array"
  /\ doc.b.type = "string"
  /\ Len(OwnedPayloads) = 3
  /\ doc.released # {}


StrictPrefix(p, q) == Len(p) < Len(q) /\ SubSeq(q, 1, Len(p)) = p

\* since the view was obtained, and before event k of the log, some node
\* above the view's target was mutated
StaleAt(log, v, k) ==
  \E m \in (v.issued + 1)..(k - 1) :
    log[m].e = "mutate" /\ StrictPrefix(log[m].path, v.path)

FollowedOps == {"set_value, followed", "append, followed", "insert, followed"}

\* C27: within one call of set_value (sequences and sequences of sequences
\* included), append_value, append_array, append_object, insert_value,
\* insert_value_if, insert_array or insert_object, no view is used after a
\* mutation of a node above its target that happened after the view was
\* obtained, and the view handed back to the caller is not stale either and
\* points at a node of the tree
C27_CompositeCallsKeepViewsFresh ==
  last.op \in FollowedOps =>
    /\ \A k \in DOMAIN last.out : ~StaleAt(last.out, last.out[k], k)
    /\ ~last.out0.null =>
         /\ ~StaleAt(last.out, last.out0, Len(last.out) + 1)
         /\ last.out0.path \in PathsOf(doc)
         /\ NodeAt(doc, last.out0.path).type = last.t

\* set_value wrote a sequence of sequences: the inner array was mutated
\* through a view obtained after the outer one was resized, and an element of
\* the inner array was written through a view obtained after that
C27_Witness ==
  /\ last.op = "set_value, followed"
  /\ last.T = T_vector(T_vector(Native.int64))
  /\ \E k, m \in DOMAIN last.out :
       /\ k < m
       /\ last.out[k].e = "mutate"
       /\ last.out[m].e = "mutate"
       /\ Len(last.out[m].path) = Len(last.js.value.path) + 2
       /\ last.out[k].path = SubSeq(last.out[m].path, 1, Len(last.out[m].path) - 1)
       /\ last.out[m].issued > k


\* C28: for every view, valid or not and of any kind, empty(js) holds iff
\* size(js) is 0, array_empty(js) iff array_size(js) is 0 and object_empty(js)
\* iff object_size(js) is 0; size(js) is 0 for an invalid view and for a node
\* that is not a string, an array, an object or a binary
C28_EmptinessAgreesWithSize ==
  last.op = "empty and size" =>
    /\ last.ret <=> last.out = 0
    /\ (/\ last.t = "any"
        /\ \/ ~is_valid(last.js)
           \/ get_type(last.pre, last.js) \in InlineTypes) => last.out = 0


\* C29: when get_value, get_value_at (by key or by index) or get_value_if
\* returns false, the native output value holds what it held before the
\* call, whatever the type read, vector<T> and array<T, N> included
C29_FailedReadKeepsDestination ==
  (/\ last.op \in {"get_value(js)", "get_value_at(key)", "get_value_at(idx)",
                   "get_value_if"}
   /\ ~last.ret) => last.out = last.out0


\* the width and the least value of the integer type named k
WidthOf(k) == IF k \in {"int64", "uint64"} THEN Bits64 ELSE Bits32
LeastOf(k) == IF k \in {"int64", "int32"} THEN 0 - Pow2(WidthOf(k) - 1) ELSE 0

\* C30: get_value into int64_t, uint64_t, int32_t or uint32_t from a node of
\* kind integer or unsigned succeeds whatever the number is, and stores the
\* value of the requested type that is congruent to it modulo 2^w, w being
\* the width of the type
C30_IntegerReadsNeverRangeCheck ==
  (/\ last.op = "get_value as"
   /\ doc.type \in {"integer", "unsigned"}) =>
    /\ last.ret
    /\ last.out >= LeastOf(last.t)
    /\ last.out < LeastOf(last.t) + Pow2(WidthOf(last.t))
    /\ (last.out - doc.v) % Pow2(WidthOf(last.t)) = 0

\* a negative integer was read as uint64_t and came out as value + 2^64
C30_Witness ==
  /\ last.op = "get_value as"
  /\ doc.type = "integer"
  /\ doc.v < 0
  /\ last.t = "uint64"
  /\ last.ret
  /\ last.out = doc.v + Pow2(Bits64)

====
